---- MODULE Spec2Model ----
(***************************************************************************)
(* A model of the UE5 fast-startup analyzer (rust-analyzer/src): the asset *)
(* scanner, the content hash, the dependency graph and the startup cache   *)
(* (build / save / load / verify).                                         *)
(*                                                                         *)
(* Representation.                                                         *)
(*   String   a sequence of tokens; "/" and "." are tokens of their own,   *)
(*            every other token is a run of name characters.               *)
(*   PathBuf  a sequence of components, each a pair <<stem, extension>>    *)
(*            (extension "" when the component has none).                  *)
(*   bytes    a file's content is named by the tag of a package image; the *)
(*            image table gives the decoded view of those bytes.           *)
(*   Result   [ok, val, err].                                              *)
(***************************************************************************)
EXTENDS Integers, Sequences, FiniteSets, TLC

VARIABLES
    disk,       \* the project directory: [content_dir, files, order]
    manifest,   \* the StartupCache held in memory (Option)
    cacheFile,  \* the bytes of the file at the cache path (Option)
    loaded,     \* the outcome of the last StartupCache::load (Option<Result>)
    result,     \* the outcome of the last StartupCache::verify (Option<Result>)
    graph,      \* a DependencyGraph
    run,        \* the working state of a toposort in progress (Option)
    builds,     \* history: each CacheBuilder::build's project and cache
    edits,      \* history: the number of changes made to the project
    last        \* the operation that ran last

vars == <<disk, manifest, cacheFile, loaded, result, graph, run, builds, edits, last>>

(***************************************************************************)
(* Bounds                                                                  *)
(***************************************************************************)
MaxAssets == 2      \* records in an arbitrary manifest
MaxBuilds == 1      \* builds per behaviour of the pipeline
MaxEdits == 2       \* project modifications per behaviour of the pipeline
MaxNodes == 2       \* nodes of a graph built through the API
MaxEdges == 2       \* edges of a graph built through the API
MaxKernelLen == 320 \* bytes of a buffer hashed through HashState

(***************************************************************************)
(* Option and Result                                                       *)
(***************************************************************************)
None == [some |-> FALSE, val |-> <<>>]
Some(v) == [some |-> TRUE, val |-> v]
Ok(v) == [ok |-> TRUE, val |-> v, err |-> "", msg |-> ""]
Err(kind, m) == [ok |-> FALSE, val |-> <<>>, err |-> kind, msg |-> m]

\* a panic unwinding out of the call: no value and no Err is returned
Panic(m) == [ok |-> FALSE, val |-> <<>>, err |-> "panic", msg |-> m]

(***************************************************************************)
(* Sequence helpers                                                        *)
(***************************************************************************)
Range(s) == {s[i] : i \in DOMAIN s}

Perms(S) == {s \in [1..Cardinality(S) -> S] :
                \A i, j \in 1..Cardinality(S) : i # j => s[i] # s[j]}

SeqsUpTo(S, n) == UNION {[1..k -> S] : k \in 0..n}

IsPrefix(p, s) == Len(p) <= Len(s) /\ SubSeq(s, 1, Len(p)) = p

Drop(s, n) == SubSeq(s, n + 1, Len(s))

\* the element of a one-element set: Only({e(x) : x \in {v}}) is e of the
\* value of v, with v worked out once
Only(S) == CHOOSE x \in S : TRUE

(***************************************************************************)
(* Strings and paths                                                       *)
(***************************************************************************)
\* str::to_lowercase on one token (the tokens of the model that have
\* upper-case letters in a place that matters)
to_lowercase(t) ==
    CASE t = "UMAP" -> "umap"
      [] t = "StartUp" -> "startup"
      [] t = "Game" -> "game"
      [] t = "Content" -> "content"
      [] t = "Engine" -> "engine"
      [] t = "A" -> "a"
      [] t = "B" -> "b"
      [] t = "M" -> "m"
      [] OTHER -> t

\* Path::to_string_lossy: components joined by the separator
RECURSIVE to_string_lossy(_)
to_string_lossy(p) ==
    IF p = <<>> THEN <<>>
    ELSE LET c == p[1]
             name == IF c[2] = "" THEN <<c[1]>> ELSE <<c[1], ".", c[2]>>
         IN IF Len(p) = 1 THEN name
            ELSE name \o <<"/">> \o to_string_lossy(Tail(p))

\* one component from its tokens: the extension is what follows the last "."
Component(toks) ==
    IF Len(toks) >= 3 /\ toks[Len(toks) - 1] = "."
    THEN <<toks[Len(toks) - 2], toks[Len(toks)]>>
    ELSE <<toks[Len(toks)], "">>

\* Path::new(&str): split at the separators, empty components dropped
RECURSIVE PathOfStr(_, _)
PathOfStr(s, cur) ==
    IF s = <<>> THEN (IF cur = <<>> THEN <<>> ELSE <<Component(cur)>>)
    ELSE IF s[1] = "/"
         THEN (IF cur = <<>> THEN <<>> ELSE <<Component(cur)>>) \o PathOfStr(Tail(s), <<>>)
         ELSE PathOfStr(Tail(s), Append(cur, s[1]))

\* Path::extension
extension(p) == IF p = <<>> \/ p[Len(p)][2] = "" THEN None ELSE Some(p[Len(p)][2])

\* Path::with_extension
with_extension(p, ext) ==
    IF p = <<>> THEN p ELSE [p EXCEPT ![Len(p)] = <<p[Len(p)][1], ext>>]

\* Path::strip_prefix
strip_prefix(p, base) ==
    IF IsPrefix(base, p) THEN Ok(Drop(p, Len(base))) ELSE Err("StripPrefixError", "")

Dir(n) == <<n, "">>

project_root == <<Dir("proj")>>

\* the files the model's projects can hold, relative to the project root
PathA == <<Dir("Content"), <<"A", "uasset">>>>
PathB == <<Dir("Content"), <<"B", "uasset">>>>
PathM == <<Dir("Content"), <<"M", "UMAP">>>>
PathT == <<Dir("Content"), <<"n", "txt">>>>
PathS == <<Dir("Content"), <<"StartUp", "uasset">>>>
PathG == <<Dir("Game"), <<"B", "uasset">>>>
PathP == <<Dir("Content"), <<"t", "png">>>>
PathX == <<Dir("Content"), <<"t", "texture">>>>

FilePaths == {PathA, PathB, PathM, PathT, PathS, PathG, PathP, PathX}

(***************************************************************************)
(* Package images: the byte contents a file can have, by tag               *)
(***************************************************************************)
\* 0x9E2A83C1 as the four little-endian bytes a package starts with
UASSET_MAGIC == <<193, 131, 42, 158>>

GameB == <<"/", "Game", "/", "B">>
ScriptCore == <<"/", "Script", "/", "Core">>

\* tag 1: the 4 bytes C1 83 2A 9E (magic only, header cut short)
\* tag 2: the 5 bytes C1 83 2A 9E 00
\* tag 3: a package whose import table names /Game/B
\* tag 4: a package with an empty import table
\* tag 5: bytes that do not start with the package magic
\* tag 6: a package with a complete header whose name_count field is -1 and
\*        whose import_count and import_offset are positive
Image(tag) ==
    CASE tag = 1 -> [magic |-> UASSET_MAGIC, header_ok |-> FALSE, name_count |-> 0,
                     names |-> <<>>, import_idx |-> <<>>, size |-> 4]
      [] tag = 2 -> [magic |-> UASSET_MAGIC, header_ok |-> FALSE, name_count |-> 0,
                     names |-> <<>>, import_idx |-> <<>>, size |-> 5]
      [] tag = 3 -> [magic |-> UASSET_MAGIC, header_ok |-> TRUE, name_count |-> 2,
                     names |-> <<GameB, ScriptCore>>, import_idx |-> <<0, 1>>, size |-> 160]
      [] tag = 4 -> [magic |-> UASSET_MAGIC, header_ok |-> TRUE, name_count |-> 1,
                     names |-> <<ScriptCore>>, import_idx |-> <<>>, size |-> 96]
      [] tag = 6 -> [magic |-> UASSET_MAGIC, header_ok |-> TRUE, name_count |-> -1,
                     names |-> <<>>, import_idx |-> <<0>>, size |-> 160]
      [] OTHER -> [magic |-> <<255, 255, 255, 255>>, header_ok |-> FALSE, name_count |-> 0,
                   names |-> <<>>, import_idx |-> <<>>, size |-> 70000]

AbsentFile == [exists |-> FALSE, data |-> 0, readable |-> FALSE, modified |-> 0]
PresentFile(tag, r) == [exists |-> TRUE, data |-> tag, readable |-> r, modified |-> 1]

\* a file last modified before the Unix epoch: modified is the whole seconds
\* since the epoch, negative here
OldFile(tag) == [exists |-> TRUE, data |-> tag, readable |-> TRUE, modified |-> -1]

(***************************************************************************)
(* scanner.rs                                                              *)
(***************************************************************************)
\* AssetType::from_extension
from_extension(ext) ==
    LET e == to_lowercase(ext)
    IN CASE e = "uasset" -> "UAsset"
         [] e = "umap" -> "UMap"
         [] e = "uexp" -> "UExp"
         [] e = "ubulk" -> "UBulk"
         [] e \in {"ushaderbytecode", "ush"} -> "Shader"
         [] e \in {"png", "jpg", "tga", "dds", "exr"} -> "Texture"
         [] e \in {"wav", "ogg", "mp3"} -> "Audio"
         [] e = "uanimation" -> "Animation"
         [] OTHER -> "Other"

\* AssetType::as_str
as_str(t) ==
    CASE t = "UAsset" -> "uasset"
      [] t = "UMap" -> "umap"
      [] t = "UExp" -> "uexp"
      [] t = "UBulk" -> "ubulk"
      [] t = "Shader" -> "shader"
      [] t = "Texture" -> "texture"
      [] t = "Audio" -> "audio"
      [] t = "Animation" -> "animation"
      [] t = "Blueprint" -> "blueprint"
      [] t = "Material" -> "material"
      [] t = "Other" -> "other"

content_dir == project_root \o <<Dir("Content")>>

\* AssetScanner::new
AssetScanner_new(d) ==
    IF ~d.content_dir
    THEN Err("InvalidProject", "Content directory not found")
    ELSE Ok(content_dir)

\* the regular files WalkDir finds beneath Content/, as relative paths
WalkEntries(files) ==
    {p \in FilePaths : files[p].exists /\ IsPrefix(content_dir, project_root \o p)}

\* the orders in which a directory can enumerate them; the order is the
\* directory's, so two walks of an unchanged project agree
WalkOrders(files) == Perms(WalkEntries(files))

\* WalkDir::new(content_dir): the entries in the directory's order
WalkDir(d) == d.order

NoFilter == [some |-> FALSE, val |-> ""]

\* the record made with the extension classified as it is spelled
ScanEntry_AsSpelled(d, filter, rel) ==
    LET path == project_root \o rel
        ext == extension(path)
        asset_type == IF ext.val # to_lowercase(ext.val) THEN "Other"
                      ELSE from_extension(ext.val)
        modified == IF d.files[rel].modified < 0
                    THEN Err("SystemTimeError", "")
                    ELSE Ok(d.files[rel].modified)
        stripped == strip_prefix(path, project_root)
    IN IF ~ext.some THEN None
       ELSE IF ~filter.some /\ asset_type = "Other" THEN None
       ELSE IF ~modified.ok THEN None
       ELSE IF ~stripped.ok THEN None
       ELSE Some([path |-> path,
                  relative_path |-> to_string_lossy(stripped.val),
                  asset_type |-> asset_type,
                  size_bytes |-> Image(d.files[rel].data).size,
                  modified |-> modified.val])

\* the record made with Other discarded whether or not a filter is given
ScanEntry_DropsOther(d, filter, rel) ==
    LET path == project_root \o rel
        ext == extension(path)
        asset_type == from_extension(ext.val)
        modified == IF d.files[rel].modified < 0
                    THEN Err("SystemTimeError", "")
                    ELSE Ok(d.files[rel].modified)
        stripped == strip_prefix(path, project_root)
    IN IF ~ext.some THEN None
       ELSE IF asset_type = "Other" THEN None
       ELSE IF ~modified.ok THEN None
       ELSE IF ~stripped.ok THEN None
       ELSE Some([path |-> path,
                  relative_path |-> to_string_lossy(stripped.val),
                  asset_type |-> asset_type,
                  size_bytes |-> Image(d.files[rel].data).size,
                  modified |-> modified.val])

\* the record scan_all makes of one directory entry (Option); the time of
\* modification is taken as the duration since the epoch, which fails for a
\* time before it
ScanEntry(d, filter, rel) ==
    LET path == project_root \o rel
        ext == extension(path)
        asset_type == from_extension(ext.val)
        modified == IF d.files[rel].modified < 0
                    THEN Err("SystemTimeError", "")
                    ELSE Ok(d.files[rel].modified)
        stripped == strip_prefix(path, project_root)
    IN IF ~ext.some THEN None
       ELSE IF ~filter.some /\ asset_type = "Other" THEN None
       ELSE IF ~modified.ok THEN None
       ELSE IF ~stripped.ok THEN None
       ELSE Some([path |-> path,
                  relative_path |-> to_string_lossy(stripped.val),
                  asset_type |-> asset_type,
                  size_bytes |-> Image(d.files[rel].data).size,
                  modified |-> modified.val])

RECURSIVE ScanEntries(_, _, _)
ScanEntries(d, filter, entries) ==
    IF entries = <<>> THEN <<>>
    ELSE LET rel == entries[1]
             keep == ~filter.some
                     \/ (extension(rel).some
                         /\ to_lowercase(extension(rel).val) = to_lowercase(filter.val))
             rec == ScanEntry(d, filter, rel)
         IN (IF keep /\ rec.some THEN <<rec.val>> ELSE <<>>)
            \o ScanEntries(d, filter, Tail(entries))

\* AssetScanner::scan_all; order is the walk's enumeration order
scan_all(d, filter, order) == Ok(ScanEntries(d, filter, order))

\* AssetScanner::scan_by_type
scan_by_type(d, asset_type, order) == scan_all(d, Some(as_str(asset_type)), order)

(***************************************************************************)
(* hash.rs                                                                 *)
(***************************************************************************)
SMALL_FILE_THRESHOLD == 4096
MMAP_THRESHOLD == 65536

\* xxhash_rust::xxh3::xxh3_64 of the bytes named by a tag: a fixed mixing of
\* the content, different for different contents of the model
xxh3_64(data) == (data * 40503 + 12345) % 65536

hash_bytes(data) == xxh3_64(data)

\* the file at an absolute path
FileAt(d, path) ==
    LET rel == strip_prefix(path, project_root)
    IN IF rel.ok /\ rel.val \in FilePaths THEN d.files[rel.val] ELSE AbsentFile

\* hash_file
hash_file(d, path) ==
    LET f == FileAt(d, path)
        len == Image(f.data).size
    IN IF ~f.exists \/ ~f.readable THEN Err("IoError", "open")
       ELSE IF len < SMALL_FILE_THRESHOLD THEN Ok(hash_bytes(f.data))
       ELSE IF len < MMAP_THRESHOLD THEN Ok(hash_bytes(f.data))
       ELSE Ok(hash_bytes(f.data))

(***************************************************************************)
(* cache.rs: StartupCache::verify                                          *)
(***************************************************************************)
\* HashMap::get on the map collected from the scan (a later record of the
\* same relative path replaces an earlier one)
RECURSIVE current_map_get(_, _)
current_map_get(current_assets, key) ==
    IF current_assets = <<>> THEN None
    ELSE LET n == Len(current_assets)
         IN IF current_assets[n].relative_path = key
            THEN Some(current_assets[n])
            ELSE current_map_get(SubSeq(current_assets, 1, n - 1), key)

\* the loop with a record whose hash cannot be taken left out of every class
RECURSIVE VerifyLoop_DropHashFailure(_, _, _, _, _)
VerifyLoop_DropHashFailure(assets, i, d, current_assets, acc) ==
    IF i > Len(assets) THEN acc
    ELSE LET cached == assets[i]
             current == current_map_get(current_assets, cached.relative_path)
             hash == hash_file(d, current.val.path)
             next ==
                IF current.some
                THEN IF hash.ok
                     THEN IF hash.val = cached.content_hash
                          THEN [acc EXCEPT !.matching = @ + 1]
                          ELSE [acc EXCEPT !.changed = Append(@, cached.relative_path)]
                     ELSE acc
                ELSE [acc EXCEPT !.missing = Append(@, cached.relative_path)]
         IN VerifyLoop_DropHashFailure(assets, i + 1, d, current_assets, next)

\* the loop with a record absent from the scan counted as matching
RECURSIVE VerifyLoop_MissingMatches(_, _, _, _, _)
VerifyLoop_MissingMatches(assets, i, d, current_assets, acc) ==
    IF i > Len(assets) THEN acc
    ELSE LET cached == assets[i]
             current == current_map_get(current_assets, cached.relative_path)
             hash == hash_file(d, current.val.path)
             next ==
                IF current.some
                THEN IF hash.ok
                     THEN IF hash.val = cached.content_hash
                          THEN [acc EXCEPT !.matching = @ + 1]
                          ELSE [acc EXCEPT !.changed = Append(@, cached.relative_path)]
                     ELSE [acc EXCEPT !.changed = Append(@, cached.relative_path)]
                ELSE [acc EXCEPT !.matching = @ + 1]
         IN VerifyLoop_MissingMatches(assets, i + 1, d, current_assets, next)

\* the loop of verify over self.assets, from record i on
RECURSIVE VerifyLoop(_, _, _, _, _)
VerifyLoop(assets, i, d, current_assets, acc) ==
    IF i > Len(assets) THEN acc
    ELSE LET cached == assets[i]
             current == current_map_get(current_assets, cached.relative_path)
             hash == hash_file(d, current.val.path)
             next ==
                IF current.some
                THEN IF hash.ok
                     THEN IF hash.val = cached.content_hash
                          THEN [acc EXCEPT !.matching = @ + 1]
                          ELSE [acc EXCEPT !.changed = Append(@, cached.relative_path)]
                     ELSE [acc EXCEPT !.changed = Append(@, cached.relative_path)]
                ELSE [acc EXCEPT !.missing = Append(@, cached.relative_path)]
         IN VerifyLoop(assets, i + 1, d, current_assets, next)

\* verify calling a cache valid whenever no record is changed
verify_ValidWhenUnchanged(self, d, order) ==
    LET scanner == AssetScanner_new(d)
        VerifyResult(acc) ==
            [is_valid |-> acc.changed = <<>>,
             total_assets |-> Len(self.assets),
             matching_assets |-> acc.matching,
             changed_assets |-> acc.changed,
             missing_assets |-> acc.missing]
    IN IF ~scanner.ok THEN scanner
       ELSE Only({ Only({ Ok(VerifyResult(acc)) :
                            acc \in {VerifyLoop(self.assets, 1, d, current_assets,
                                                [matching |-> 0, changed |-> <<>>,
                                                 missing |-> <<>>])} }) :
                     current_assets \in {scan_all(d, NoFilter, order).val} })

\* StartupCache::verify
verify(self, d, order) ==
    LET scanner == AssetScanner_new(d)
        VerifyResult(acc) ==
            [is_valid |-> acc.changed = <<>> /\ acc.missing = <<>>,
             total_assets |-> Len(self.assets),
             matching_assets |-> acc.matching,
             changed_assets |-> acc.changed,
             missing_assets |-> acc.missing]
    IN IF ~scanner.ok THEN scanner
       ELSE Only({ Only({ Ok(VerifyResult(acc)) :
                            acc \in {VerifyLoop(self.assets, 1, d, current_assets,
                                                [matching |-> 0, changed |-> <<>>,
                                                 missing |-> <<>>])} }) :
                     current_assets \in {scan_all(d, NoFilter, order).val} })

(***************************************************************************)
(* graph.rs: DependencyGraph over petgraph's DiGraph                       *)
(*   nodes   by NodeIndex (0-based: node i is nodes[i + 1])                *)
(*   edges   in insertion order, each with its end points' indices         *)
(***************************************************************************)
DependencyGraph_new == [nodes |-> <<>>, edges |-> <<>>, path_to_node |-> <<>>]

node_count(g) == Len(g.nodes)
edge_count(g) == Len(g.edges)
node_indices(g) == [i \in 1..Len(g.nodes) |-> i - 1]

\* HashMap::get on path_to_node
path_to_node_get(g, path) ==
    IF path \in DOMAIN g.path_to_node THEN Some(g.path_to_node[path]) ELSE None

\* add_asset without the lookup: a node is added for every call
add_asset_AlwaysAdds(g, asset) ==
    LET node == [path |-> asset.path,
                 asset_type |-> asset.asset_type,
                 is_startup_critical |-> FALSE,
                 load_order |-> None]
        idx == Len(g.nodes)
    IN [g EXCEPT !.nodes = Append(@, node),
                 !.path_to_node = (asset.path :> idx) @@ @]

\* DependencyGraph::add_asset (the graph after the call)
add_asset(g, asset) ==
    IF path_to_node_get(g, asset.path).some THEN g
    ELSE LET node == [path |-> asset.path,
                      asset_type |-> asset.asset_type,
                      is_startup_critical |-> FALSE,
                      load_order |-> None]
             idx == Len(g.nodes)
         IN [g EXCEPT !.nodes = Append(@, node),
                      !.path_to_node = (asset.path :> idx) @@ @]

\* DependencyGraph::add_dependency
\* add_dependency leaving the graph alone when it holds the edge already
add_dependency_OncePerTriple(g, from, to, dep_type, is_hard) ==
    LET from_idx == path_to_node_get(g, from)
        to_idx == path_to_node_get(g, to)
        edge == [source |-> from_idx.val, target |-> to_idx.val,
                 dependency_type |-> dep_type, is_hard |-> is_hard]
    IN IF ~from_idx.some THEN g
       ELSE IF ~to_idx.some THEN g
       ELSE IF edge \in Range(g.edges) THEN g
       ELSE [g EXCEPT !.edges = Append(@, edge)]

add_dependency(g, from, to, dep_type, is_hard) ==
    LET from_idx == path_to_node_get(g, from)
        to_idx == path_to_node_get(g, to)
    IN IF ~from_idx.some THEN g
       ELSE IF ~to_idx.some THEN g
       ELSE [g EXCEPT !.edges = Append(@, [source |-> from_idx.val,
                                           target |-> to_idx.val,
                                           dependency_type |-> dep_type,
                                           is_hard |-> is_hard])]

\* Graph::neighbors_directed: an edge list is walked from its most recently
\* added edge to its oldest
RECURSIVE neighbors_directed(_, _, _)
neighbors_directed(edges, a, outgoing) ==
    IF edges = <<>> THEN <<>>
    ELSE LET n == Len(edges)
             e == edges[n]
             rest == neighbors_directed(SubSeq(edges, 1, n - 1), a, outgoing)
         IN IF outgoing /\ e.source = a THEN <<e.target>> \o rest
            ELSE IF ~outgoing /\ e.target = a THEN <<e.source>> \o rest
            ELSE rest

neighbors(g, a) == neighbors_directed(g.edges, a, TRUE)

\* the nodes of succs not yet in discovered, in order
RECURSIVE Undiscovered(_, _)
Undiscovered(succs, discovered) ==
    IF succs = <<>> THEN <<>>
    ELSE (IF succs[1] \in discovered THEN <<>> ELSE <<succs[1]>>)
         \o Undiscovered(Tail(succs), discovered)

\* petgraph::visit::Dfs::next on the graph (outgoing) or on Reversed(graph)
RECURSIVE DfsNext(_, _, _, _)
DfsNext(g, outgoing, stack, discovered) ==
    IF stack = <<>> THEN [node |-> None, stack |-> stack, discovered |-> discovered]
    ELSE LET node == stack[Len(stack)]
             popped == SubSeq(stack, 1, Len(stack) - 1)
         IN IF node \in discovered THEN DfsNext(g, outgoing, popped, discovered)
            ELSE [node |-> Some(node),
                  stack |-> popped \o Undiscovered(neighbors_directed(g.edges, node, outgoing),
                                                   discovered \cup {node}),
                  discovered |-> discovered \cup {node}]

\* a Dfs run to exhaustion: the set of nodes it yields
RECURSIVE Dfs(_, _, _)
Dfs(g, stack, discovered) ==
    Only({ IF ~r.node.some THEN r.discovered ELSE Dfs(g, r.stack, r.discovered) :
             r \in {DfsNext(g, TRUE, stack, discovered)} })

\* a removal that drops the last node without moving it into the freed index
remove_node_NoSwap(g, a) ==
    LET lastIdx == Len(g.nodes) - 1
        kept == SelectSeq(g.edges, LAMBDA e : e.source # a /\ e.target # a)
    IN [g EXCEPT !.nodes = SubSeq(g.nodes, 1, lastIdx),
                 !.edges = SelectSeq(kept, LAMBDA e : e.source # lastIdx /\ e.target # lastIdx)]

\* Graph::remove_node: the node's edges go, the last node takes its index
remove_node(g, a) ==
    LET lastIdx == Len(g.nodes) - 1
        kept == SelectSeq(g.edges, LAMBDA e : e.source # a /\ e.target # a)
        moved(i) == IF i = lastIdx THEN a ELSE i
        nodes1 == IF a = lastIdx THEN g.nodes ELSE [g.nodes EXCEPT ![a + 1] = g.nodes[lastIdx + 1]]
    IN [g EXCEPT !.nodes = SubSeq(nodes1, 1, lastIdx),
                 !.edges = [k \in 1..Len(kept) |->
                               [kept[k] EXCEPT !.source = moved(@), !.target = moved(@)]]]

\* the test that seeds the critical set
IsSeed(node) ==
    \/ node.asset_type = "UMap"
    \/ \E k \in DOMAIN to_string_lossy(node.path) :
          to_lowercase(to_string_lossy(node.path)[k]) = "startup"

\* the first loop of filter_startup_critical, over critical_indices from k on
RECURSIVE MarkCritical(_, _, _)
MarkCritical(g, critical_indices, k) ==
    IF k > Len(critical_indices) THEN g
    ELSE Only({ MarkCritical(
                    [g EXCEPT !.nodes = [i \in 1..Len(g.nodes) |->
                                            IF (i - 1) \in reached
                                            THEN [g.nodes[i] EXCEPT !.is_startup_critical = TRUE]
                                            ELSE g.nodes[i]]],
                    critical_indices, k + 1) :
                  reached \in {{critical_indices[k]} \cup Dfs(g, <<critical_indices[k]>>, {})} })

\* the removal loop run over non_critical from its first index up, each
\* index as it was collected (an index past the end removes nothing)
RECURSIVE RemoveNonCritical_Forward(_, _, _)
RemoveNonCritical_Forward(g, non_critical, k) ==
    IF k < 1 THEN g
    ELSE Only({ RemoveNonCritical_Forward(g1, non_critical, k - 1) :
                  g1 \in {LET idx == non_critical[Len(non_critical) + 1 - k]
                          IN IF idx >= node_count(g) THEN g ELSE remove_node(g, idx)} })

\* the removal loop, over non_critical in reverse from position k down
RECURSIVE RemoveNonCritical(_, _, _)
RemoveNonCritical(g, non_critical, k) ==
    IF k < 1 THEN g
    ELSE Only({ RemoveNonCritical(g1, non_critical, k - 1) :
                  g1 \in {remove_node(g, non_critical[k])} })

\* the path map rebuilt from the nodes
RebuildPathMap(nodes) ==
    [p \in {nodes[i].path : i \in 1..Len(nodes)} |->
        (CHOOSE i \in 1..Len(nodes) :
            /\ nodes[i].path = p
            /\ \A j \in 1..Len(nodes) : nodes[j].path = p => j <= i) - 1]

\* DependencyGraph::filter_startup_critical
filter_startup_critical(g) ==
    LET critical_indices == SelectSeq(node_indices(g), LAMBDA idx : IsSeed(g.nodes[idx + 1]))
        non_critical(g1) == SelectSeq(node_indices(g1),
                                      LAMBDA idx : ~g1.nodes[idx + 1].is_startup_critical)
    IN Only({ Only({ [g2 EXCEPT !.path_to_node = RebuildPathMap(g2.nodes)] :
                       g2 \in {RemoveNonCritical(g1, non_critical(g1),
                                                  Len(non_critical(g1)))} }) :
                g1 \in {MarkCritical(g, critical_indices, 1)} })

(***************************************************************************)
(* petgraph::algo::toposort, as compute_load_order calls it: the working   *)
(* state of the algorithm and one iteration of its loops                   *)
(***************************************************************************)
Reverse(s) == [k \in 1..Len(s) |-> s[Len(s) + 1 - k]]

TopoStart(g) ==
    [pc |-> "outer", i |-> Len(g.nodes) - 1, stack |-> <<>>, discovered |-> {},
     finished |-> {}, finish_stack |-> <<>>, k |-> 1]

TopoDone(st) == st.pc \in {"ok", "err"}

TopoStep(g, st) ==
    CASE st.pc = "outer" ->
            \* for i in g.node_identifiers().rev()
            IF st.i < 0
            THEN [st EXCEPT !.pc = "check", !.finish_stack = Reverse(@),
                            !.discovered = {}, !.stack = <<>>, !.k = 1]
            ELSE IF st.i \in st.discovered
            THEN [st EXCEPT !.i = @ - 1]
            ELSE [st EXCEPT !.pc = "inner", !.stack = <<st.i>>]
      [] st.pc = "inner" ->
            \* while let Some(&nx) = dfs.stack.last()
            IF st.stack = <<>>
            THEN [st EXCEPT !.pc = "outer", !.i = @ - 1]
            ELSE LET nx == st.stack[Len(st.stack)]
                     succs == neighbors(g, nx)
                 IN IF nx \notin st.discovered
                    THEN IF nx \in Range(succs)
                         THEN [st EXCEPT !.pc = "err"]
                         ELSE [st EXCEPT !.discovered = @ \cup {nx},
                                         !.stack = @ \o Undiscovered(succs, st.discovered \cup {nx})]
                    ELSE IF nx \notin st.finished
                         THEN [st EXCEPT !.stack = SubSeq(@, 1, Len(@) - 1),
                                         !.finished = @ \cup {nx},
                                         !.finish_stack = Append(@, nx)]
                         ELSE [st EXCEPT !.stack = SubSeq(@, 1, Len(@) - 1)]
      [] st.pc = "check" ->
            \* for &i in &finish_stack: no second node may be reached backwards
            IF st.k > Len(st.finish_stack)
            THEN [st EXCEPT !.pc = "ok"]
            ELSE LET first == DfsNext(g, FALSE, <<st.finish_stack[st.k]>>, st.discovered)
                     second == DfsNext(g, FALSE, first.stack, first.discovered)
                 IN IF first.node.some /\ second.node.some
                    THEN [st EXCEPT !.pc = "err"]
                    ELSE [st EXCEPT !.k = @ + 1, !.discovered = first.discovered,
                                    !.stack = first.stack]
      [] OTHER -> st

RECURSIVE TopoRun(_, _)
TopoRun(g, st) ==
    IF TopoDone(st) THEN st ELSE Only({ TopoRun(g, next) : next \in {TopoStep(g, st)} })

toposort(g) ==
    Only({ IF st.pc = "ok" THEN Ok(st.finish_stack) ELSE Err("Cycle", "") :
             st \in {TopoRun(g, TopoStart(g))} })

\* the fallback ordering taken whatever toposort returned
AssignRanks_IndexOrder(g, sorted) ==
    [g EXCEPT !.nodes = [n \in 1..Len(g.nodes) |->
        [g.nodes[n] EXCEPT !.load_order = Some(n - 1)]]]

\* ranks written on success only
AssignRanks_NoFallback(g, sorted) ==
    IF sorted.ok THEN AssignRanks_IndexOrder(g, Ok(<<>>)) ELSE g

\* the ranks compute_load_order writes once toposort has returned
AssignRanks(g, sorted) ==
    IF sorted.ok
    THEN [g EXCEPT !.nodes = [n \in 1..Len(g.nodes) |->
             IF \E k \in 1..Len(sorted.val) : sorted.val[k] = n - 1
             THEN [g.nodes[n] EXCEPT !.load_order =
                      Some((CHOOSE k \in 1..Len(sorted.val) :
                               /\ sorted.val[k] = n - 1
                               /\ \A j \in 1..Len(sorted.val) : sorted.val[j] = n - 1 => j <= k) - 1)]
             ELSE g.nodes[n]]]
    ELSE [g EXCEPT !.nodes = [n \in 1..Len(g.nodes) |->
             [g.nodes[n] EXCEPT !.load_order = Some(n - 1)]]]

\* DependencyGraph::compute_load_order
compute_load_order(g) == Only({ AssignRanks(g, sorted) : sorted \in {toposort(g)} })

(***************************************************************************)
(* uasset.rs: UAssetParser::parse_imports, on the decoded view of a file   *)
(***************************************************************************)
starts_with(s, prefix) == IsPrefix(prefix, s)

\* the loop over the import table, from entry k on
RECURSIVE ReadImports(_, _, _)
ReadImports(names, import_idx, k) ==
    IF k > Len(import_idx) THEN <<>>
    ELSE LET class_package_idx == import_idx[k]
             package_name == names[class_package_idx + 1]
             hit == /\ class_package_idx < Len(names)
                    /\ \/ starts_with(package_name, <<"/", "Game", "/">>)
                       \/ starts_with(package_name, <<"/", "Engine", "/">>)
         IN (IF hit THEN <<package_name>> ELSE <<>>) \o ReadImports(names, import_idx, k + 1)

\* read_name_table: Vec::with_capacity(header.name_count as usize) first; a
\* negative count cast to usize is above isize::MAX / size_of::<String>()
read_name_table(img) ==
    IF img.name_count < 0 THEN Panic("capacity overflow") ELSE Ok(img.names)

parse_imports(d, path) ==
    LET f == FileAt(d, path)
        img == Image(f.data)
        names == read_name_table(img)
    IN IF ~f.exists \/ ~f.readable THEN Err("IoError", "open")
       ELSE IF img.size < 4 THEN Err("AssetError", "File too small")
       ELSE IF img.magic # UASSET_MAGIC THEN Err("AssetError", "Invalid UAsset magic")
       ELSE IF ~img.header_ok THEN Err("IoError", "failed to fill whole buffer")
       ELSE IF Len(img.import_idx) <= 0 THEN Ok(<<>>)
       ELSE IF ~names.ok THEN names
       ELSE Ok(ReadImports(names.val, img.import_idx, 1))

(***************************************************************************)
(* graph.rs: resolve_import_path and DependencyGraph::build                *)
(***************************************************************************)
\* str::trim_start_matches('/')
RECURSIVE trim_start_matches(_, _)
trim_start_matches(s, c) ==
    IF s # <<>> /\ s[1] = c THEN trim_start_matches(Tail(s), c) ELSE s

\* str::replace: every non-overlapping match, left to right
RECURSIVE replace(_, _, _)
replace(s, from, to) ==
    IF s = <<>> THEN <<>>
    ELSE IF IsPrefix(from, s) THEN to \o replace(Drop(s, Len(from)), from, to)
    ELSE <<s[1]>> \o replace(Tail(s), from, to)

\* Path::join of a string
join(base, str) ==
    IF str # <<>> /\ str[1] = "/" THEN PathOfStr(str, <<>>) ELSE base \o PathOfStr(str, <<>>)

\* Path::exists
exists(d, path) == FileAt(d, path).exists

resolve_import_path(d, import) ==
    LET cleaned == replace(replace(trim_start_matches(import, "/"),
                                   <<"/", "Game", "/">>, <<"Content", "/">>),
                           <<"/", "Engine", "/">>, <<"Engine", "/", "Content", "/">>)
        path == with_extension(join(project_root, cleaned), "uasset")
    IN IF exists(d, path) THEN Some(path) ELSE None

\* the nodes of build: every scanned asset added
RECURSIVE AddAssets(_, _, _)
AddAssets(g, assets, k) ==
    IF k > Len(assets) THEN g
    ELSE Only({ AddAssets(g1, assets, k + 1) : g1 \in {add_asset(g, assets[k])} })

\* the (source, imports) pairs of the packages that parsed
RECURSIVE Dependencies(_, _, _)
Dependencies(d, assets, k) ==
    IF k > Len(assets) THEN <<>>
    ELSE LET asset == assets[k]
             parsed == parse_imports(d, asset.path)
         IN (IF asset.asset_type = "UAsset" /\ parsed.ok
             THEN <<[source_path |-> asset.path, imports |-> parsed.val]>>
             ELSE <<>>)
            \o Dependencies(d, assets, k + 1)

\* the edges of one package's imports, from import k on
RECURSIVE AddImportEdges(_, _, _, _, _)
AddImportEdges(g, d, source_path, imports, k) ==
    IF k > Len(imports) THEN g
    ELSE LET import_path == resolve_import_path(d, imports[k])
         IN Only({ AddImportEdges(g1, d, source_path, imports, k + 1) :
                     g1 \in {IF import_path.some
                             THEN add_dependency(g, source_path, import_path.val,
                                                 "Import", TRUE)
                             ELSE g} })

RECURSIVE AddEdges(_, _, _, _)
AddEdges(g, d, dependencies, k) ==
    IF k > Len(dependencies) THEN g
    ELSE Only({ AddEdges(g1, d, dependencies, k + 1) :
                  g1 \in {AddImportEdges(g, d, dependencies[k].source_path,
                                         dependencies[k].imports, 1)} })

\* a closure of the parallel parse panicked: rayon carries the panic to the
\* thread that called collect
ParsePanicked(d, assets) ==
    \E k \in DOMAIN assets :
        /\ assets[k].asset_type = "UAsset"
        /\ parse_imports(d, assets[k].path).err = "panic"

\* DependencyGraph::build; order is the enumeration order of its scan
DependencyGraph_build(d, order) ==
    LET scanner == AssetScanner_new(d)
    IN IF ~scanner.ok THEN scanner
       ELSE Only({ IF ParsePanicked(d, assets) THEN Panic("capacity overflow")
                   ELSE Only({ Ok(AddEdges(g, d, dependencies, 1)) :
                                 g \in {AddAssets(DependencyGraph_new, assets, 1)},
                                 dependencies \in {Dependencies(d, assets, 1)} }) :
                     assets \in {scan_all(d, NoFilter, order).val} })

\* u32::MAX, scaled to the model's integers: above every rank
U32_MAX == 4294967

\* the key get_load_order sorts by
LoadOrderKey(n) == IF n.load_order.some THEN n.load_order.val ELSE U32_MAX

\* slice::sort_by_key (stable) on that key
RECURSIVE InsertByKey(_, _)
InsertByKey(sorted, x) ==
    IF sorted = <<>> THEN <<x>>
    ELSE IF LoadOrderKey(sorted[Len(sorted)]) <= LoadOrderKey(x) THEN Append(sorted, x)
    ELSE Append(InsertByKey(SubSeq(sorted, 1, Len(sorted) - 1), x), sorted[Len(sorted)])

RECURSIVE sort_by_key(_)
sort_by_key(s) ==
    IF s = <<>> THEN <<>>
    ELSE Only({ InsertByKey(sorted, s[Len(s)]) :
                  sorted \in {sort_by_key(SubSeq(s, 1, Len(s) - 1))} })

\* DependencyGraph::get_load_order
get_load_order(g) == Only({ sort_by_key(nodes) : nodes \in {g.nodes} })

(***************************************************************************)
(* cache.rs: CacheBuilder::build                                           *)
(***************************************************************************)
VERSION == <<"0.1.0">>

StartupCache_new(project_name, now) ==
    [version |-> VERSION,
     created_at |-> now,
     project_name |-> project_name,
     hash_algorithm |-> <<"xxh3">>,
     assets |-> <<>>,
     load_order |-> <<>>,
     shader_variants |-> <<>>]

\* the hashing pass recording each asset under its absolute path
RECURSIVE CachedAssets_AbsolutePath(_, _, _)
CachedAssets_AbsolutePath(d, assets, k) ==
    IF k > Len(assets) THEN <<>>
    ELSE LET asset == assets[k]
             hash == hash_file(d, asset.path)
         IN (IF hash.ok
             THEN <<[relative_path |-> to_string_lossy(asset.path),
                     asset_type |-> asset.asset_type,
                     content_hash |-> hash.val,
                     size_bytes |-> asset.size_bytes,
                     load_order |-> k - 1,
                     is_startup_critical |-> FALSE]>>
             ELSE <<>>)
            \o CachedAssets_AbsolutePath(d, assets, k + 1)

\* the hashing pass: a record per asset whose hash could be taken
RECURSIVE CachedAssets(_, _, _)
CachedAssets(d, assets, k) ==
    IF k > Len(assets) THEN <<>>
    ELSE LET asset == assets[k]
             hash == hash_file(d, asset.path)
         IN (IF hash.ok
             THEN <<[relative_path |-> asset.relative_path,
                     asset_type |-> asset.asset_type,
                     content_hash |-> hash.val,
                     size_bytes |-> asset.size_bytes,
                     load_order |-> k - 1,
                     is_startup_critical |-> FALSE]>>
             ELSE <<>>)
            \o CachedAssets(d, assets, k + 1)

\* the marking pass over ordered_nodes, from node k on
RECURSIVE MarkStartupCritical(_, _, _)
MarkStartupCritical(assets, ordered_nodes, k) ==
    IF k > Len(ordered_nodes) THEN assets
    ELSE LET node == ordered_nodes[k]
             hits == {i \in DOMAIN assets : assets[i].relative_path = to_string_lossy(node.path)}
             first == CHOOSE i \in hits : \A j \in hits : i <= j
         IN Only({ MarkStartupCritical(next, ordered_nodes, k + 1) :
                     next \in {IF node.is_startup_critical /\ hits # {}
                               THEN [assets EXCEPT ![first].is_startup_critical = TRUE]
                               ELSE assets} })

\* CacheBuilder::build up to `cache.assets = cached_assets`: the scan and the
\* hashing pass; order is the enumeration order of the scan
build_HashPass(d, now, order) ==
    LET project_name == <<project_root[Len(project_root)][1]>>
        cache == StartupCache_new(project_name, now)
        scanner == AssetScanner_new(d)
    IN IF ~scanner.ok THEN scanner
       ELSE Only({ Ok([cache EXCEPT !.assets = CachedAssets(d, assets, 1)]) :
                     assets \in {scan_all(d, NoFilter, order).val} })

\* CacheBuilder::build from `DependencyGraph::build` on: the graph of the
\* project as it is then, its load order, and the marking pass
build_OrderPass(d, cache, graph_order) ==
    LET Built(g, ordered_nodes) ==
            Ok([cache |-> [cache EXCEPT
                    !.assets = MarkStartupCritical(cache.assets, ordered_nodes, 1),
                    !.load_order = [k \in 1..Len(ordered_nodes) |->
                                       to_string_lossy(ordered_nodes[k].path)]],
                graph |-> g])
        Ordered(g) ==
            Only({ Built(g, ordered_nodes) : ordered_nodes \in {get_load_order(g)} })
    IN Only({ IF ~built.ok THEN built
              ELSE Only({ Ordered(g) : g \in {compute_load_order(built.val)} }) :
                built \in {DependencyGraph_build(d, graph_order)} })

\* CacheBuilder::build: the cache and the graph it computed; order and
\* graph_order are the enumeration orders of its two scans
CacheBuilder_build(d, now, order, graph_order) ==
    Only({ IF ~hashed.ok THEN hashed ELSE build_OrderPass(d, hashed.val, graph_order) :
             hashed \in {build_HashPass(d, now, order)} })

(***************************************************************************)
(* cache.rs: StartupCache::save and StartupCache::load                     *)
(* The file is a sequence of numbers: the 8 magic bytes, then the bincode  *)
(* payload written field by field (a string or a vector as its length and  *)
(* its items, an enum as its variant index, a bool as 0 or 1).             *)
(***************************************************************************)
\* b"UEFAST01"
CACHE_MAGIC == <<85, 69, 70, 65, 83, 84, 48, 49>>

\* the text tokens of the model and their encoded form (position in the table)
TokenTable ==
    <<"/", ".", "Content", "Game", "Engine", "Script", "Core", "proj", "A", "B", "M", "n",
      "StartUp", "uasset", "UMAP", "txt", "xxh3", "0.1.0", "Other", "sm5", "x">>

TokenCode(t) == CHOOSE k \in DOMAIN TokenTable : TokenTable[k] = t

AssetTypes ==
    <<"UAsset", "UMap", "UExp", "UBulk", "Shader", "Texture", "Audio", "Animation",
      "Blueprint", "Material", "Other">>

VariantIndex(t) == (CHOOSE k \in DOMAIN AssetTypes : AssetTypes[k] = t) - 1

EncString(str) == <<Len(str)>> \o [k \in 1..Len(str) |-> TokenCode(str[k])]
EncBool(b) == IF b THEN <<1>> ELSE <<0>>
\* a timestamp: its RFC 3339 text, one code per instant, from 1000 on
EncDateTime(t) == <<1, 1000 + t>>

\* a record written without its criticality flag's value
EncAsset_NoCritical(a) ==
    EncString(a.relative_path) \o <<VariantIndex(a.asset_type), a.content_hash,
                                    a.size_bytes, a.load_order>>
        \o EncBool(FALSE)

EncAsset(a) ==
    EncString(a.relative_path) \o <<VariantIndex(a.asset_type), a.content_hash,
                                    a.size_bytes, a.load_order>>
        \o EncBool(a.is_startup_critical)

EncShader(v) == EncString(v.name) \o <<v.hash>> \o EncString(v.platform)

RECURSIVE EncAssets(_)
EncAssets(assets) ==
    IF assets = <<>> THEN <<>> ELSE EncAsset(assets[1]) \o EncAssets(Tail(assets))

RECURSIVE EncStrings(_)
EncStrings(strs) ==
    IF strs = <<>> THEN <<>> ELSE EncString(strs[1]) \o EncStrings(Tail(strs))

RECURSIVE EncShaders(_)
EncShaders(vs) ==
    IF vs = <<>> THEN <<>> ELSE EncShader(vs[1]) \o EncShaders(Tail(vs))

\* bincode::serialize_into of a StartupCache
serialize(self) ==
    EncString(self.version) \o EncDateTime(self.created_at)
        \o EncString(self.project_name) \o EncString(self.hash_algorithm)
        \o <<Len(self.assets)>> \o EncAssets(self.assets)
        \o <<Len(self.load_order)>> \o EncStrings(self.load_order)
        \o <<Len(self.shader_variants)>> \o EncShaders(self.shader_variants)

\* StartupCache::save: the bytes of the file it leaves at the path
save(self) == CACHE_MAGIC \o serialize(self)

\* decoding: each reader returns [ok, val, rest]
Read(v, rest) == [ok |-> TRUE, val |-> v, rest |-> rest]
Short == [ok |-> FALSE, val |-> <<>>, rest |-> <<>>]

DecU(bytes) == IF bytes = <<>> THEN Short ELSE Read(bytes[1], Tail(bytes))

DecBool(bytes) ==
    IF bytes = <<>> \/ bytes[1] \notin {0, 1} THEN Short ELSE Read(bytes[1] = 1, Tail(bytes))

DecString(bytes) ==
    IF bytes = <<>> THEN Short
    ELSE LET n == bytes[1]
             body == SubSeq(bytes, 2, n + 1)
         IN IF n < 0 \/ Len(bytes) < n + 1 THEN Short
            ELSE IF \E k \in 1..n : body[k] \notin DOMAIN TokenTable THEN Short
            ELSE Read([k \in 1..n |-> TokenTable[body[k]]], Drop(bytes, n + 1))

DecDateTime(bytes) ==
    IF Len(bytes) < 2 \/ bytes[1] # 1 \/ bytes[2] < 1000 THEN Short
    ELSE Read(bytes[2] - 1000, Drop(bytes, 2))

DecAssetType(bytes) ==
    IF bytes = <<>> \/ bytes[1] \notin 0..(Len(AssetTypes) - 1) THEN Short
    ELSE Read(AssetTypes[bytes[1] + 1], Tail(bytes))

RECURSIVE Dec(_, _)

\* fields of the given kinds read one after another; acc is what was read
RECURSIVE DecFields(_, _, _)
DecFields(kinds, bytes, acc) ==
    IF kinds = <<>> THEN Read(acc, bytes)
    ELSE Only({ IF ~x.ok THEN Short
                ELSE DecFields(Tail(kinds), x.rest, Append(acc, x.val)) :
                  x \in {Dec(kinds[1], bytes)} })

\* count items of one kind read one after another
RECURSIVE DecItems(_, _, _, _)
DecItems(kind, count, bytes, acc) ==
    IF count = 0 THEN Read(acc, bytes)
    ELSE Only({ IF ~x.ok THEN Short
                ELSE DecItems(kind, count - 1, x.rest, Append(acc, x.val)) :
                  x \in {Dec(kind, bytes)} })

\* a vector: its length, then its items
DecVec(kind, bytes) ==
    Only({ IF ~n.ok \/ n.val < 0 THEN Short ELSE DecItems(kind, n.val, n.rest, <<>>) :
             n \in {DecU(bytes)} })

DecAsset(bytes) ==
    Only({ IF ~r.ok THEN Short
           ELSE Read([relative_path |-> r.val[1], asset_type |-> r.val[2],
                      content_hash |-> r.val[3], size_bytes |-> r.val[4],
                      load_order |-> r.val[5], is_startup_critical |-> r.val[6]],
                     r.rest) :
             r \in {DecFields(<<"string", "type", "u64", "u64", "u32", "bool">>,
                              bytes, <<>>)} })

DecShader(bytes) ==
    Only({ IF ~r.ok THEN Short
           ELSE Read([name |-> r.val[1], hash |-> r.val[2], platform |-> r.val[3]],
                     r.rest) :
             r \in {DecFields(<<"string", "u64", "string">>, bytes, <<>>)} })

\* a value of one kind
Dec(kind, bytes) ==
    CASE kind \in {"u64", "u32"} -> DecU(bytes)
      [] kind = "bool" -> DecBool(bytes)
      [] kind = "string" -> DecString(bytes)
      [] kind = "datetime" -> DecDateTime(bytes)
      [] kind = "type" -> DecAssetType(bytes)
      [] kind = "asset" -> DecAsset(bytes)
      [] kind = "shader" -> DecShader(bytes)
      [] kind = "assets" -> DecVec("asset", bytes)
      [] kind = "strings" -> DecVec("string", bytes)
      [] kind = "shaders" -> DecVec("shader", bytes)

\* bincode::deserialize_from for a StartupCache
deserialize(bytes) ==
    Only({ IF ~r.ok THEN Short
           ELSE Read([version |-> r.val[1], created_at |-> r.val[2],
                      project_name |-> r.val[3], hash_algorithm |-> r.val[4],
                      assets |-> r.val[5], load_order |-> r.val[6],
                      shader_variants |-> r.val[7]],
                     r.rest) :
             r \in {DecFields(<<"string", "datetime", "string", "string",
                                "assets", "strings", "shaders">>, bytes, <<>>)} })

\* load with the payload decoded before the magic is compared
load_DeserializeFirst(file) ==
    IF ~file.some THEN [res |-> Err("IoError", "open"), deserialized |-> FALSE]
    ELSE IF Len(file.val) < 8
    THEN [res |-> Err("IoError", "failed to fill whole buffer"), deserialized |-> FALSE]
    ELSE Only({ [res |-> IF ~cache.ok THEN Err("SerializationError", "bincode")
                         ELSE IF SubSeq(file.val, 1, 8) # CACHE_MAGIC
                         THEN Err("CacheError", "Invalid cache file format")
                         ELSE Ok(cache.val),
                 deserialized |-> TRUE] :
                  cache \in {deserialize(Drop(file.val, 8))} })

\* StartupCache::load of the file at the path (an Option of its bytes):
\* its result, and whether it got as far as bincode::deserialize_from
load(file) ==
    IF ~file.some THEN [res |-> Err("IoError", "open"), deserialized |-> FALSE]
    ELSE IF Len(file.val) < 8
    THEN [res |-> Err("IoError", "failed to fill whole buffer"), deserialized |-> FALSE]
    ELSE IF SubSeq(file.val, 1, 8) # CACHE_MAGIC
    THEN [res |-> Err("CacheError", "Invalid cache file format"), deserialized |-> FALSE]
    ELSE Only({ [res |-> IF ~cache.ok THEN Err("SerializationError", "bincode")
                         ELSE Ok(cache.val),
                 deserialized |-> TRUE] :
                  cache \in {deserialize(Drop(file.val, 8))} })

(***************************************************************************)
(* hash.rs and asm_bindings.rs on byte buffers                             *)
(*   buffer  a sequence of runs <<count, byte>> (count > 0, neighbouring   *)
(*           runs of different bytes): one buffer, one sequence            *)
(*   u64     its 8 bytes, least significant first                          *)
(***************************************************************************)
\* the buffer of the runs given in any form
RECURSIVE Norm(_)
Norm(runs) ==
    IF runs = <<>> THEN <<>>
    ELSE IF runs[1][1] = 0 THEN Norm(Tail(runs))
    ELSE IF Len(runs) >= 2 /\ runs[2][1] = 0
         THEN Norm(<<runs[1]>> \o Tail(Tail(runs)))
    ELSE IF Len(runs) >= 2 /\ runs[1][2] = runs[2][2]
         THEN Norm(<<<<runs[1][1] + runs[2][1], runs[1][2]>>>> \o Tail(Tail(runs)))
    ELSE <<runs[1]>> \o Norm(Tail(runs))

\* <[T]>::len
RECURSIVE len(_)
len(x) == IF x = <<>> THEN 0 ELSE x[1][1] + len(Tail(x))

\* x[from..to]
RECURSIVE Slice(_, _, _)
Slice(x, from, to) ==
    IF x = <<>> \/ to <= from THEN <<>>
    ELSE IF from >= x[1][1] THEN Slice(Tail(x), from - x[1][1], to - x[1][1])
    ELSE IF to <= x[1][1] THEN <<<<to - from, x[1][2]>>>>
    ELSE Norm(<<<<x[1][1] - from, x[1][2]>>>> \o Slice(Tail(x), 0, to - x[1][1]))

\* x[i]
RECURSIVE ByteAt(_, _)
ByteAt(x, i) == IF i < x[1][1] THEN x[1][2] ELSE ByteAt(Tail(x), i - x[1][1])

\* Vec::extend_from_slice
extend_from_slice(x, y) == Norm(x \o y)

\* u64 of a number of the model, and u64::to_le_bytes of it as a buffer
U64(n) == [i \in 1..8 |-> IF i <= 4 THEN (n \div (256 ^ (i - 1))) % 256 ELSE 0]
to_le_bytes(n) == Norm([i \in 1..8 |-> <<1, U64(n)[i]>>])

RECURSIVE AddLimbs(_, _, _, _)
AddLimbs(a, b, i, carry) ==
    IF i > 8 THEN <<>>
    ELSE Only({ <<s % 256>> \o AddLimbs(a, b, i + 1, s \div 256) :
                  s \in {a[i] + b[i] + carry} })

\* u64::wrapping_add, u64::wrapping_sub
wrapping_add(a, b) == AddLimbs(a, b, 1, 0)
wrapping_sub(a, b) == AddLimbs(a, [i \in 1..8 |-> 255 - b[i]], 1, 1)

RECURSIVE Column(_, _, _, _)
Column(a, b, k, i) == IF i > k THEN 0 ELSE a[i] * b[k + 1 - i] + Column(a, b, k, i + 1)

RECURSIVE MulLimbs(_, _, _, _)
MulLimbs(a, b, k, carry) ==
    IF k > 8 THEN <<>>
    ELSE Only({ <<s % 256>> \o MulLimbs(a, b, k + 1, s \div 256) :
                  s \in {Column(a, b, k, 1) + carry} })

\* u64::wrapping_mul
wrapping_mul(a, b) == MulLimbs(a, b, 1, 0)

\* u64::rotate_left
rotate_left(a, n) ==
    LET q == n \div 8
        r == n % 8
        c == [i \in 1..8 |-> a[((i - 1 - q) % 8) + 1]]
    IN [i \in 1..8 |-> ((c[i] * (2 ^ r)) % 256) + (c[((i - 2) % 8) + 1] \div (2 ^ (8 - r)))]

\* u64 >> n
shr(a, n) ==
    LET q == n \div 8
        r == n % 8
        c == [i \in 1..9 |-> IF i + q <= 8 THEN a[i + q] ELSE 0]
    IN [i \in 1..8 |-> (c[i] \div (2 ^ r)) + ((c[i + 1] * (2 ^ (8 - r))) % 256)]

RECURSIVE XorByte(_, _)
XorByte(a, b) ==
    IF a = 0 THEN b ELSE IF b = 0 THEN a
    ELSE ((a + b) % 2) + 2 * XorByte(a \div 2, b \div 2)

\* u64 ^ u64
xor(a, b) == [i \in 1..8 |-> XorByte(a[i], b[i])]

PRIME64_1 == <<135, 202, 235, 133, 177, 121, 55, 158>>
PRIME64_2 == <<79, 235, 212, 39, 61, 174, 178, 194>>
PRIME64_3 == <<249, 121, 55, 158, 177, 103, 86, 22>>
PRIME64_4 == <<99, 174, 178, 194, 119, 202, 235, 133>>

\* HashState::new
HashState_new(seed) ==
    [accumulators |-> <<wrapping_add(wrapping_add(seed, PRIME64_1), PRIME64_2),
                        wrapping_add(seed, PRIME64_2),
                        seed,
                        wrapping_sub(seed, PRIME64_1)>>,
     total_len |-> 0]

\* one lane of one 32-byte block: acc = rotl31(acc + input * P2) * P1
Lane(acc, data, lane_offset) ==
    LET input == [j \in 1..8 |-> ByteAt(data, lane_offset + j - 1)]
    IN wrapping_mul(rotate_left(wrapping_add(acc, wrapping_mul(input, PRIME64_2)), 31),
                    PRIME64_1)

\* HashState::update_rust_fallback from block i on; hash_block_simd is the
\* kernel of the same contract
RECURSIVE update_rust_fallback(_, _, _, _)
update_rust_fallback(accumulators, data, block_count, i) ==
    IF i >= block_count THEN accumulators
    ELSE Only({ update_rust_fallback(next, data, block_count, i + 1) :
                  next \in {[lane \in 1..4 |->
                               Lane(accumulators[lane], data, i * 32 + (lane - 1) * 8)]} })

\* HashState::update
HashState_update(self, data) ==
    LET block_count == len(data) \div 32
    IN [accumulators |-> IF block_count > 0
                         THEN update_rust_fallback(self.accumulators, data, block_count, 0)
                         ELSE self.accumulators,
        total_len |-> self.total_len + len(data)]

\* HashState::finalize (finalize_rust_fallback; hash_finalize is the kernel
\* of the same contract)
HashState_finalize(self) ==
    LET acc == self.accumulators
        Avalanche(h0) ==
            Only({ xor(h4, shr(h4, 32)) :
                     h4 \in { wrapping_mul(h3, PRIME64_4) :
                     h3 \in { xor(h2, shr(h2, 29)) :
                     h2 \in { wrapping_mul(h1, PRIME64_3) :
                     h1 \in { xor(h0, shr(h0, 33)) } } } } })
    IN Only({ Avalanche(h) :
                h \in {wrapping_add(
                          wrapping_add(
                             wrapping_add(
                                wrapping_add(rotate_left(acc[1], 1), rotate_left(acc[2], 7)),
                                rotate_left(acc[3], 12)),
                             rotate_left(acc[4], 18)),
                          U64(self.total_len))} })

\* hash_bytes_asm: the state fed chunk by chunk, from byte k on
RECURSIVE UpdateChunks(_, _, _)
UpdateChunks(state, data, k) ==
    IF k >= len(data) THEN state
    ELSE Only({ UpdateChunks(next, data, k + 32 * 1024) :
                  next \in {HashState_update(state,
                               Slice(data, k, IF k + 32 * 1024 < len(data)
                                              THEN k + 32 * 1024 ELSE len(data)))} })

hash_bytes_asm(data) ==
    Only({ HashState_finalize(state) :
             state \in {UpdateChunks(HashState_new(U64(0)), data, 0)} })

\* xxhash_rust::xxh3::xxh3_64 (a crate outside the repository) on a buffer:
\* a fixed mixing of the length and of every run of the content
RECURSIVE Xxh3Runs(_, _)
Xxh3Runs(acc, x) ==
    IF x = <<>> THEN acc
    ELSE Only({ Xxh3Runs(next, Tail(x)) :
                  next \in {rotate_left(
                               wrapping_mul(wrapping_add(acc, U64(x[1][1] * 256 + x[1][2])),
                                            PRIME64_3), 27)} })

xxh3_64_of(x) == Xxh3Runs(U64(len(x)), x)

\* hash_bytes of a buffer, in a build with or without the asm_hotpaths feature
hash_bytes_of(data, asm_hotpaths) ==
    IF asm_hotpaths /\ len(data) >= 256 THEN hash_bytes_asm(data) ELSE xxh3_64_of(data)

CHUNK_SIZE == 262144

\* hash_file with the mapped tier reading only the first MMAP_THRESHOLD bytes
hash_file_of_MappedPrefix(f, asm_hotpaths) ==
    IF ~f.readable THEN Err("IoError", "open")
    ELSE IF len(f.contents) < MMAP_THRESHOLD THEN Ok(hash_bytes_of(f.contents, asm_hotpaths))
    ELSE Ok(hash_bytes_of(Slice(f.contents, 0, MMAP_THRESHOLD), asm_hotpaths))

\* hash_file of a file given by its contents
hash_file_of(f, asm_hotpaths) ==
    LET length == len(f.contents)
    IN IF ~f.readable THEN Err("IoError", "open")
       ELSE IF length < SMALL_FILE_THRESHOLD
            THEN Ok(hash_bytes_of(Slice(f.contents, 0, length), asm_hotpaths))
       ELSE IF length < MMAP_THRESHOLD
            THEN Ok(hash_bytes_of(Slice(f.contents, 0, length), asm_hotpaths))
       ELSE Ok(hash_bytes_of(f.contents, asm_hotpaths))

\* usize::min
min(a, b) == IF a <= b THEN a ELSE b

\* the buffer turbo_hash collects from a mapped file
TurboSample(mmap) ==
    LET length == len(mmap)
        sample_size == 64 * 1024
        middle == length \div 2
        first == Slice(mmap, 0, min(sample_size, length))
        mid == IF length > sample_size * 2
               THEN Slice(mmap, middle, middle + min(sample_size, length - middle))
               ELSE <<>>
        end == IF length > sample_size THEN Slice(mmap, length - sample_size, length)
               ELSE <<>>
    IN extend_from_slice(extend_from_slice(extend_from_slice(first, mid), end),
                         to_le_bytes(length))

\* turbo_hash without the fallback for small files
turbo_hash_of_SampleAll(f, asm_hotpaths) ==
    IF ~f.readable THEN Err("IoError", "open")
    ELSE Ok(hash_bytes_of(TurboSample(f.contents), asm_hotpaths))

\* turbo_hash sampling every file of two sample sizes or more
turbo_hash_of_SampleFrom128K(f, asm_hotpaths) ==
    IF ~f.readable THEN Err("IoError", "open")
    ELSE IF len(f.contents) < 64 * 1024 * 2 THEN hash_file_of(f, asm_hotpaths)
    ELSE Ok(hash_bytes_of(TurboSample(f.contents), asm_hotpaths))

\* turbo_hash of a file given by its contents
turbo_hash_of(f, asm_hotpaths) ==
    IF ~f.readable THEN Err("IoError", "open")
    ELSE IF len(f.contents) < CHUNK_SIZE * 2 THEN hash_file_of(f, asm_hotpaths)
    ELSE Ok(hash_bytes_of(TurboSample(f.contents), asm_hotpaths))

(***************************************************************************)
(* main.rs: cmd_quick_verify, on the files of a project                    *)
(***************************************************************************)
\* AssetScanner::scan_paths_only: the full paths of the entries whose
\* extension is one of seven
scan_paths_only(d, order) ==
    LET kept == SelectSeq(order, LAMBDA rel :
                    /\ extension(rel).some
                    /\ to_lowercase(extension(rel).val)
                          \in {"uasset", "umap", "uexp", "ubulk", "png", "jpg", "tga"})
    IN Ok([k \in 1..Len(kept) |-> project_root \o kept[k]])

\* the bytes turbo_hash samples from the bytes of a tag, as a tag of their own
Sampled(data) == data + 100

\* turbo_hash of a file of the project
turbo_hash(d, path) ==
    LET f == FileAt(d, path)
        length == Image(f.data).size
    IN IF ~f.exists \/ ~f.readable THEN Err("IoError", "open")
       ELSE IF length < CHUNK_SIZE * 2 THEN hash_file(d, path)
       ELSE Ok(hash_bytes(Sampled(f.data)))

\* HashMap::get on cached_hashes (a later record of the same relative path
\* replaces an earlier one)
RECURSIVE cached_hashes_get(_, _)
cached_hashes_get(assets, key) ==
    IF assets = <<>> THEN None
    ELSE LET n == Len(assets)
         IN IF assets[n].relative_path = key
            THEN Some(assets[n].content_hash)
            ELSE cached_hashes_get(SubSeq(assets, 1, n - 1), key)

\* the filter_map of cmd_quick_verify over the scanned paths, from path k on
RECURSIVE QuickChanges(_, _, _, _)
QuickChanges(cache, d, paths, k) ==
    IF k > Len(paths) THEN <<>>
    ELSE LET stripped == strip_prefix(paths[k], project_root)
             relative == to_string_lossy(stripped.val)
             current_hash == turbo_hash(d, paths[k])
             cached_hash == cached_hashes_get(cache.assets, relative)
             change ==
                IF ~stripped.ok THEN <<>>
                ELSE IF ~current_hash.ok THEN <<>>
                ELSE IF cached_hash.some /\ cached_hash.val # current_hash.val
                     THEN <<relative>>
                ELSE IF ~cached_hash.some THEN <<relative>>
                ELSE <<>>
         IN change \o QuickChanges(cache, d, paths, k + 1)

\* cmd_quick_verify after the load of the cache: the changes it reports
cmd_quick_verify(cache, d, order) ==
    LET scanner == AssetScanner_new(d)
    IN IF ~scanner.ok THEN scanner
       ELSE Only({ Ok([changes |-> QuickChanges(cache, d, paths, 1)]) :
                     paths \in {scan_paths_only(d, order).val} })

(***************************************************************************)
(* SpecGraph: a DependencyGraph driven through its public operations       *)
(***************************************************************************)
GraphPaths == {PathA, PathB, PathM, PathS}

\* the asset record the scanner makes of a path
AssetInfoOf(rel) ==
    [path |-> project_root \o rel,
     relative_path |-> to_string_lossy(rel),
     asset_type |-> from_extension(extension(rel).val),
     size_bytes |-> 0,
     modified |-> 0]

DependencyTypes == {"Import"}

NoDisk == [content_dir |-> FALSE, files |-> [p \in FilePaths |-> AbsentFile], order |-> <<>>]

InitGraph ==
    /\ graph = DependencyGraph_new
    /\ run = None
    /\ disk = NoDisk
    /\ manifest = None
    /\ cacheFile = None
    /\ loaded = None
    /\ result = None
    /\ builds = <<>>
    /\ edits = 0
    /\ last = "new"

AddAsset ==
    \E rel \in GraphPaths :
        /\ ~run.some
        /\ node_count(graph) < MaxNodes
        /\ graph' = add_asset(graph, AssetInfoOf(rel))
        /\ last' = "add_asset"
        /\ UNCHANGED <<disk, manifest, cacheFile, loaded, result, run, builds, edits>>

AddDependency ==
    \E from \in GraphPaths, to \in GraphPaths, dep_type \in DependencyTypes :
        /\ ~run.some
        /\ edge_count(graph) < MaxEdges
        /\ graph' = add_dependency(graph, project_root \o from, project_root \o to, dep_type, TRUE)
        /\ last' = "add_dependency"
        /\ UNCHANGED <<disk, manifest, cacheFile, loaded, result, run, builds, edits>>

FilterStartupCritical ==
    /\ graph' = filter_startup_critical(graph)
    /\ last' = "filter_startup_critical"
    /\ UNCHANGED <<disk, manifest, cacheFile, loaded, result, run, builds, edits>>

ComputeLoadOrder ==
    /\ graph' = compute_load_order(graph)
    /\ last' = "compute_load_order"
    /\ UNCHANGED <<disk, manifest, cacheFile, loaded, result, run, builds, edits>>

NextGraph == AddAsset \/ AddDependency \/ FilterStartupCritical \/ ComputeLoadOrder

SpecGraph == InitGraph /\ [][NextGraph]_vars

(***************************************************************************)
(* SpecTopo: graphs under construction, with compute_load_order taken one  *)
(* loop iteration at a time                                                *)
(***************************************************************************)
ComputeBegin ==
    /\ ~run.some
    /\ run' = Some(TopoStart(graph))
    /\ last' = "toposort"
    /\ UNCHANGED <<disk, manifest, cacheFile, loaded, result, graph, builds, edits>>

ComputeStep ==
    /\ run.some
    /\ ~TopoDone(run.val)
    /\ run' = Some(TopoStep(graph, run.val))
    /\ UNCHANGED <<disk, manifest, cacheFile, loaded, result, graph, builds, edits, last>>

ComputeEnd ==
    /\ run.some
    /\ TopoDone(run.val)
    /\ graph' = AssignRanks(graph, IF run.val.pc = "ok" THEN Ok(run.val.finish_stack)
                                   ELSE Err("Cycle", ""))
    /\ run' = None
    /\ last' = "compute_load_order"
    /\ UNCHANGED <<disk, manifest, cacheFile, loaded, result, builds, edits>>

\* the graph is still being put together: no order has been computed for it
Constructing == last \in {"new", "add_asset", "add_dependency"}

NextTopo ==
    \/ (Constructing /\ AddAsset)
    \/ (Constructing /\ AddDependency)
    \/ (Constructing /\ ComputeBegin)
    \/ ComputeStep
    \/ ComputeEnd

SpecTopo ==
    /\ InitGraph
    /\ [][NextTopo]_vars
    /\ WF_vars(ComputeStep)
    /\ WF_vars(ComputeEnd)

(***************************************************************************)
(* Spec: the cache pipeline on a project that changes under it             *)
(*   build, save, load, verify; files written and deleted after a build    *)
(***************************************************************************)
Files(present) ==
    [p \in FilePaths |-> IF p \in DOMAIN present THEN present[p] ELSE AbsentFile]

\* the projects with the given files, one per enumeration order
Projects(present) ==
    { [content_dir |-> TRUE, files |-> Files(present), order |-> o] :
        o \in WalkOrders(Files(present)) }

\* the projects a behaviour starts from
InitDisks ==
    {NoDisk}
    \cup Projects(PathA :> PresentFile(1, TRUE))
    \cup Projects(PathA :> PresentFile(3, TRUE) @@ PathB :> PresentFile(4, TRUE))
    \cup Projects(PathA :> PresentFile(3, TRUE) @@ PathB :> PresentFile(4, TRUE)
                   @@ PathG :> PresentFile(4, TRUE))
    \cup Projects(PathA :> PresentFile(4, TRUE) @@ PathB :> PresentFile(4, FALSE)
                   @@ PathM :> PresentFile(4, TRUE))
    \cup Projects(PathA :> PresentFile(6, TRUE) @@ PathB :> PresentFile(4, TRUE))

\* what a change can leave at a path
FileChoices(p) ==
    CASE p = PathA -> {PresentFile(2, TRUE), PresentFile(3, TRUE)}
      [] p = PathB -> {PresentFile(4, TRUE), PresentFile(4, FALSE)}
      [] OTHER -> {}

Init ==
    /\ disk \in InitDisks
    /\ manifest = None
    /\ cacheFile = None
    /\ loaded = None
    /\ result = None
    /\ graph = DependencyGraph_new
    /\ run = None
    /\ builds = <<>>
    /\ edits = 0
    /\ last = "new"

\* CacheBuilder::build; created_at is the number of the build
Build ==
    /\ Len(builds) < MaxBuilds
    /\ \E r \in {CacheBuilder_build(disk, Len(builds) + 1, WalkDir(disk), WalkDir(disk))} :
          IF r.ok
          THEN /\ manifest' = Some(r.val.cache)
               /\ graph' = r.val.graph
               /\ builds' = Append(builds, [disk |-> disk, cache |-> r.val.cache])
               /\ last' = "build"
          ELSE /\ UNCHANGED <<manifest, graph, builds>>
               /\ last' = IF r.err = "panic" THEN "build panicked" ELSE "build failed"
    /\ result' = None
    /\ UNCHANGED <<disk, cacheFile, loaded, run, edits>>

\* StartupCache::save of the cache in memory
Save ==
    /\ manifest.some
    /\ cacheFile' = Some(save(manifest.val))
    /\ last' = "save"
    /\ UNCHANGED <<disk, manifest, loaded, result, graph, run, builds, edits>>

\* StartupCache::load of the file at the cache path
Load ==
    /\ \E r \in {load(cacheFile)} :
          loaded' = Some([file |-> cacheFile, res |-> r.res,
                          deserialized |-> r.deserialized])
    /\ last' = "load"
    /\ UNCHANGED <<disk, manifest, cacheFile, result, graph, run, builds, edits>>

\* StartupCache::verify, on the cache in memory or on the one loaded
Verify ==
    \E src \in {"built", "loaded"} :
        /\ src = "built" => manifest.some
        /\ src = "loaded" => (loaded.some /\ loaded.val.res.ok)
        /\ LET self == IF src = "built" THEN manifest.val ELSE loaded.val.res.val
           IN result' = Some([res |-> verify(self, disk, WalkDir(disk)),
                              of |-> self, src |-> src,
                              file |-> IF src = "loaded" THEN loaded.val.file ELSE None])
        /\ last' = "verify"
        /\ UNCHANGED <<disk, manifest, cacheFile, loaded, graph, run, builds, edits>>

\* the enumeration orders once p is written: an existing entry keeps its
\* place, a new one can take any
OrdersAfterWrite(d, p) ==
    IF p \in Range(d.order) \/ ~IsPrefix(content_dir, project_root \o p)
    THEN {d.order}
    ELSE { SubSeq(d.order, 1, k) \o <<p>> \o Drop(d.order, k) : k \in 0..Len(d.order) }

\* a file of the project is written (created or overwritten), after a build
\* or while one is between its two scans
WriteFile ==
    \E p \in FilePaths : \E f \in FileChoices(p) :
        /\ builds # <<>> \/ run.some
        /\ edits < MaxEdits
        /\ disk.content_dir
        /\ f.exists
        /\ f # disk.files[p]
        /\ \E o \in OrdersAfterWrite(disk, p) :
              disk' = [disk EXCEPT !.files[p] = f, !.order = o]
        /\ edits' = edits + 1
        /\ result' = None
        /\ last' = "write"
        /\ UNCHANGED <<manifest, cacheFile, loaded, graph, run, builds>>

\* a file of the project is deleted
DeleteFile ==
    \E p \in FilePaths :
        /\ builds # <<>> \/ run.some
        /\ edits < MaxEdits
        /\ disk.files[p].exists
        /\ disk' = [disk EXCEPT !.files[p] = AbsentFile,
                                !.order = SelectSeq(@, LAMBDA q : q # p)]
        /\ edits' = edits + 1
        /\ result' = None
        /\ last' = "delete"
        /\ UNCHANGED <<manifest, cacheFile, loaded, graph, run, builds>>

Next == Build \/ Save \/ Load \/ Verify \/ WriteFile \/ DeleteFile

Spec == Init /\ [][Next]_vars

(***************************************************************************)
(* SpecBuild: CacheBuilder::build taken in its two passes, each with its   *)
(* own scan of the project, and the project free to change in between      *)
(***************************************************************************)
\* build up to the end of the hashing pass
BuildHashPass ==
    /\ ~run.some
    /\ Len(builds) < MaxBuilds
    /\ \E h \in {build_HashPass(disk, Len(builds) + 1, WalkDir(disk))} :
          IF h.ok
          THEN /\ run' = Some([cache |-> h.val, disk |-> disk])
               /\ last' = "hashed"
          ELSE /\ run' = None
               /\ last' = "build failed"
    /\ result' = None
    /\ UNCHANGED <<disk, manifest, cacheFile, loaded, graph, builds, edits>>

\* build from DependencyGraph::build to its return
BuildOrderPass ==
    /\ run.some
    /\ \E r \in {build_OrderPass(disk, run.val.cache, WalkDir(disk))} :
          IF r.ok
          THEN /\ manifest' = Some(r.val.cache)
               /\ graph' = r.val.graph
               /\ builds' = Append(builds, [disk |-> run.val.disk, cache |-> r.val.cache])
               /\ last' = "build"
          ELSE /\ UNCHANGED <<manifest, graph, builds>>
               /\ last' = IF r.err = "panic" THEN "build panicked" ELSE "build failed"
    /\ run' = None
    /\ UNCHANGED <<disk, cacheFile, loaded, result, edits>>

NextBuild == BuildHashPass \/ BuildOrderPass \/ WriteFile \/ DeleteFile

SpecBuild == Init /\ [][NextBuild]_vars

(***************************************************************************)
(* SpecVerify: verify applied to any cache and any project                 *)
(***************************************************************************)
VerifyDisks ==
    {NoDisk} \cup
    UNION { Projects(PathA :> a @@ PathB :> b @@ PathT :> t) :
        a \in {AbsentFile, PresentFile(1, TRUE), PresentFile(2, TRUE)},
        b \in {AbsentFile, PresentFile(4, TRUE), PresentFile(4, FALSE)},
        t \in {AbsentFile, PresentFile(5, TRUE)} }

VerifyRecords ==
    { [relative_path |-> to_string_lossy(p),
       asset_type |-> from_extension(extension(p).val),
       content_hash |-> h,
       size_bytes |-> 4,
       load_order |-> 0,
       is_startup_critical |-> FALSE] :
        p \in {PathA, PathB, PathT}, h \in {xxh3_64(1), xxh3_64(4), xxh3_64(5)} }

VerifyManifests ==
    { [StartupCache_new(<<"proj">>, 0) EXCEPT !.assets = a] :
        a \in SeqsUpTo(VerifyRecords, MaxAssets) }

InitVerify ==
    /\ disk \in VerifyDisks
    /\ manifest \in {Some(m) : m \in VerifyManifests}
    /\ cacheFile = None
    /\ loaded = None
    /\ result = None
    /\ graph = DependencyGraph_new
    /\ run = None
    /\ builds = <<>>
    /\ edits = 0
    /\ last = "new"

VerifyAny ==
        /\ result' = Some([res |-> verify(manifest.val, disk, WalkDir(disk)),
                           of |-> manifest.val, src |-> "built", file |-> None])
        /\ last' = "verify"
        /\ UNCHANGED <<disk, manifest, cacheFile, loaded, graph, run, builds, edits>>

NextVerify == VerifyAny

SpecVerify == InitVerify /\ [][NextVerify]_vars

(***************************************************************************)
(* SpecCodec: save and load of any cache, with the file open to damage     *)
(***************************************************************************)
CodecRecords ==
    { [relative_path |-> to_string_lossy(PathA), asset_type |-> "UAsset",
       content_hash |-> xxh3_64(3), size_bytes |-> 160, load_order |-> 1,
       is_startup_critical |-> TRUE],
      [relative_path |-> to_string_lossy(PathM), asset_type |-> "UMap",
       content_hash |-> 0, size_bytes |-> 0, load_order |-> 0,
       is_startup_critical |-> FALSE],
      [relative_path |-> <<>>, asset_type |-> "Other",
       content_hash |-> 65535, size_bytes |-> 70000, load_order |-> 2,
       is_startup_critical |-> FALSE] }

CodecManifests ==
    { [version |-> VERSION, created_at |-> t, project_name |-> <<"proj">>,
       hash_algorithm |-> <<"xxh3">>, assets |-> a, load_order |-> l,
       shader_variants |-> v] :
        t \in {0, 1},
        a \in SeqsUpTo(CodecRecords, MaxAssets),
        l \in {<<>>, <<to_string_lossy(project_root \o PathM), to_string_lossy(project_root \o PathA)>>},
        v \in {<<>>, <<[name |-> <<"x">>, hash |-> 7, platform |-> <<"sm5">>]>>} }

\* the file of the spec's scenario: FF FF FF FF FF FF FF FF and one more byte
JunkFile == [k \in 1..9 |-> 255]

InitCodec ==
    /\ manifest \in {Some(m) : m \in CodecManifests}
    /\ cacheFile = None
    /\ loaded = None
    /\ disk = NoDisk
    /\ result = None
    /\ graph = DependencyGraph_new
    /\ run = None
    /\ builds = <<>>
    /\ edits = 0
    /\ last = "new"

SaveAny ==
    /\ cacheFile' = Some(save(manifest.val))
    /\ loaded' = None
    /\ last' = "save"
    /\ UNCHANGED <<disk, manifest, result, graph, run, builds, edits>>

\* the file as save left it is cut short, or one byte of it is overwritten
Damage ==
    /\ cacheFile = Some(save(manifest.val))
    /\ \E n \in 1..Len(cacheFile.val) :
          \/ cacheFile' = Some(SubSeq(cacheFile.val, 1, n - 1))
          \/ cacheFile' = Some([cacheFile.val EXCEPT ![n] = 255])
    /\ loaded' = None
    /\ last' = "damage"
    /\ UNCHANGED <<disk, manifest, result, graph, run, builds, edits>>

\* some other file is put at the cache path
Replace ==
    /\ cacheFile' = Some(JunkFile)
    /\ cacheFile' # cacheFile
    /\ loaded' = None
    /\ last' = "replace"
    /\ UNCHANGED <<disk, manifest, result, graph, run, builds, edits>>

NextCodec == SaveAny \/ Damage \/ Replace \/ Load

SpecCodec == InitCodec /\ [][NextCodec]_vars

(***************************************************************************)
(* SpecQuick: cmd_quick_verify applied to any cache and any project        *)
(***************************************************************************)
QuickVerifyAny ==
    /\ last = "new"
    /\ result' = Some([res |-> cmd_quick_verify(manifest.val, disk, WalkDir(disk)),
                       of |-> manifest.val, src |-> "quick", file |-> None])
    /\ last' = "quick_verify"
    /\ UNCHANGED <<disk, manifest, cacheFile, loaded, graph, run, builds, edits>>

NextQuick == QuickVerifyAny

SpecQuick == InitVerify /\ [][NextQuick]_vars

(***************************************************************************)
(* SpecHash: hash_bytes, hash_file and turbo_hash applied to a file, in a  *)
(* build with or without the asm_hotpaths feature                          *)
(***************************************************************************)
\* the lengths of the files: around the block, the kernel threshold, the
\* tiers of hash_file and the thresholds of turbo_hash
HashLengths ==
    {0, 1, 31, 255, 256, 257, 288, 4095, 4096, 65535, 65536, 70000,
     131071, 131072, 300000, 524287, 524288, 600000}

\* the contents: zeros, or zeros but for one byte
HashContents ==
    { Norm(<<<<n, 0>>>>) : n \in HashLengths }
    \cup UNION { { Norm(<<<<p, 0>>, <<1, 1>>, <<n - p - 1, 0>>>>) :
                     p \in {q \in {0, 8, 256, 70000, 140000, 299999, 370000} : q < n} } :
                   n \in HashLengths }
    \cup { Norm(<<<<n - 1, 0>>, <<1, 1>>>>) : n \in HashLengths \ {0} }

InitHash ==
    /\ run \in { Some([contents |-> x, readable |-> r, asm_hotpaths |-> a]) :
                    x \in HashContents, r \in BOOLEAN, a \in BOOLEAN }
    /\ run.val.asm_hotpaths => len(run.val.contents) <= MaxKernelLen
    /\ ~run.val.readable => len(run.val.contents) = 0
    /\ result = None
    /\ disk = NoDisk
    /\ manifest = None
    /\ cacheFile = None
    /\ loaded = None
    /\ graph = DependencyGraph_new
    /\ builds = <<>>
    /\ edits = 0
    /\ last = "new"

HashBytes ==
    /\ last = "new"
    /\ result' = Some(Ok(hash_bytes_of(run.val.contents, run.val.asm_hotpaths)))
    /\ last' = "hash_bytes"
    /\ UNCHANGED <<disk, manifest, cacheFile, loaded, graph, run, builds, edits>>

HashFile ==
    /\ last = "new"
    /\ result' = Some(hash_file_of(run.val, run.val.asm_hotpaths))
    /\ last' = "hash_file"
    /\ UNCHANGED <<disk, manifest, cacheFile, loaded, graph, run, builds, edits>>

TurboHash ==
    /\ last = "new"
    /\ result' = Some(turbo_hash_of(run.val, run.val.asm_hotpaths))
    /\ last' = "turbo_hash"
    /\ UNCHANGED <<disk, manifest, cacheFile, loaded, graph, run, builds, edits>>

NextHash == HashBytes \/ HashFile \/ TurboHash

SpecHash == InitHash /\ [][NextHash]_vars

(***************************************************************************)
(* Graph notions the properties are stated with                            *)
(***************************************************************************)
NodeIds(g) == 0..(Len(g.nodes) - 1)

Succs(g, S) == {g.edges[k].target : k \in {j \in DOMAIN g.edges : g.edges[j].source \in S}}

\* the nodes reachable from S by a path of zero or more edges
RECURSIVE ReachableFrom(_, _)
ReachableFrom(g, S) ==
    LET n == S \cup Succs(g, S)
    IN IF n = S THEN S ELSE ReachableFrom(g, n)

Acyclic(g) == \A i \in NodeIds(g) : i \notin ReachableFrom(g, Succs(g, {i}))

Ranked(g) == \A i \in NodeIds(g) : g.nodes[i + 1].load_order.some

rank(g, i) == g.nodes[i + 1].load_order.val

\* a seed: a Map, or a path whose lower-cased text contains "startup"
SeedNode(node) ==
    \/ node.asset_type = "UMap"
    \/ node.path = project_root \o PathS

(***************************************************************************)
(* Cache notions the properties are stated with                            *)
(***************************************************************************)
\* the (relative path, fingerprint) pairs a manifest records
ManifestPairs(m) ==
    {<<m.assets[i].relative_path, m.assets[i].content_hash>> : i \in DOMAIN m.assets}

\* the files under Content/ that are assets: classified, not Other
DiskAssetPaths(d) ==
    {p \in FilePaths :
        /\ d.content_dir
        /\ d.files[p].exists
        /\ IsPrefix(content_dir, project_root \o p)
        /\ extension(p).some
        /\ from_extension(extension(p).val) # "Other"}

\* the (relative path, fingerprint) pairs of the assets on disk
DiskPairs(d) ==
    {<<to_string_lossy(p), xxh3_64(d.files[p].data)>> :
        p \in {q \in DiskAssetPaths(d) : d.files[q].readable}}

\* the class of a manifest record against the project
ClassOf(d, rec) ==
    LET here == {p \in DiskAssetPaths(d) : to_string_lossy(p) = rec.relative_path}
        f == d.files[CHOOSE p \in here : TRUE]
    IN IF here = {} THEN "missing"
       ELSE IF f.readable /\ xxh3_64(f.data) = rec.content_hash THEN "matching"
       ELSE "changed"

\* the relative paths of a manifest's records of one class, in record order
PathsOfClass(m, d, class) ==
    LET recs == SelectSeq(m.assets, LAMBDA rec : ClassOf(d, rec) = class)
    IN [k \in 1..Len(recs) |-> recs[k].relative_path]

\* the last verify succeeded
Verified == result.some /\ result.val.res.ok

\* the last verify was of the cache of build k, in memory or saved and loaded
VerifiedBuild(k) ==
    /\ Verified
    /\ \/ result.val.src = "built" /\ result.val.of = builds[k].cache
       \/ result.val.src = "loaded" /\ result.val.file = Some(save(builds[k].cache))

\* the file a manifest record of build k was made of
RecordedPath(rec) == CHOOSE p \in FilePaths : to_string_lossy(p) = rec.relative_path

\* the bytes load compares with the magic: the first 8, or all there are
FirstBytes(bytes) == SubSeq(bytes, 1, IF Len(bytes) < 8 THEN Len(bytes) ELSE 8)

\* C1: verify returns is_valid = true if and only if the (relative path,
\* fingerprint) pairs of the assets now under Content/ are exactly those of
\* the manifest's records, for every manifest and every project state
C1_ValidIffExactMatch ==
    Verified =>
        (result.val.res.val.is_valid <=> ManifestPairs(result.val.of) = DiskPairs(disk))

\* C2: verify puts every manifest record in exactly one of matching, changed
\* and missing, as the scan and the recomputed hash decide, so that
\* total_assets = matching_assets + |changed_assets| + |missing_assets| and
\* total_assets is the number of records
C2_ThreeWayClassification ==
    Verified =>
        LET m == result.val.of
            v == result.val.res.val
        IN /\ v.matching_assets = Len(PathsOfClass(m, disk, "matching"))
           /\ v.changed_assets = PathsOfClass(m, disk, "changed")
           /\ v.missing_assets = PathsOfClass(m, disk, "missing")
           /\ v.total_assets = Len(m.assets)
           /\ v.total_assets =
                 v.matching_assets + Len(v.changed_assets) + Len(v.missing_assets)

\* a verify that met a record whose file cannot be hashed and a record whose
\* file is not in the scan
C2_Witness ==
    /\ Verified
    /\ \E i \in DOMAIN result.val.of.assets :
          LET rec == result.val.of.assets[i]
          IN /\ ClassOf(disk, rec) = "changed"
             /\ ~disk.files[RecordedPath(rec)].readable
    /\ result.val.res.val.missing_assets # <<>>

\* C3: a project that is the same at verify as it was at build gives
\* is_valid = true, matching_assets = total_assets and empty changed_assets
\* and missing_assets, for the cache in memory and for the cache saved and
\* loaded
C3_UnmodifiedProjectValid ==
    \A k \in DOMAIN builds :
        (VerifiedBuild(k) /\ builds[k].disk = disk) =>
            LET v == result.val.res.val
            IN /\ v.is_valid
               /\ v.matching_assets = v.total_assets
               /\ v.total_assets = Len(builds[k].cache.assets)
               /\ v.changed_assets = <<>>
               /\ v.missing_assets = <<>>

\* a saved and loaded cache of two assets verified against the unmodified
\* project
C3_Witness ==
    \E k \in DOMAIN builds :
        /\ VerifiedBuild(k)
        /\ result.val.src = "loaded"
        /\ builds[k].disk = disk
        /\ result.val.res.val.total_assets = 2

\* C4: after a build, a recorded asset whose file now holds other bytes makes
\* verify return is_valid = false with the asset's relative path among
\* changed_assets, and a recorded asset whose file is gone makes it return
\* is_valid = false with the path among missing_assets
C4_OverwriteChangedDeleteMissing ==
    \A k \in DOMAIN builds :
        VerifiedBuild(k) =>
            \A i \in DOMAIN builds[k].cache.assets :
                LET rec == builds[k].cache.assets[i]
                    was == builds[k].disk.files[RecordedPath(rec)]
                    now == disk.files[RecordedPath(rec)]
                    v == result.val.res.val
                IN /\ (now.exists /\ now.data # was.data) =>
                         (~v.is_valid /\ rec.relative_path \in Range(v.changed_assets))
                   /\ ~now.exists =>
                         (~v.is_valid /\ rec.relative_path \in Range(v.missing_assets))

\* a verify after one recorded asset was overwritten and another deleted
C4_Witness ==
    \E k \in DOMAIN builds :
        /\ VerifiedBuild(k)
        /\ \E i, j \in DOMAIN builds[k].cache.assets :
              LET reci == builds[k].cache.assets[i]
                  recj == builds[k].cache.assets[j]
              IN /\ disk.files[RecordedPath(reci)].exists
                 /\ disk.files[RecordedPath(reci)].readable
                 /\ disk.files[RecordedPath(reci)].data
                        # builds[k].disk.files[RecordedPath(reci)].data
                 /\ ~disk.files[RecordedPath(recj)].exists

\* C5: load of the file save wrote for a manifest returns a manifest equal to
\* it in every field
C5_SaveLoadRoundTrip ==
    (loaded.some /\ loaded.val.file = Some(save(manifest.val))) =>
        /\ loaded.val.res.ok
        /\ \A field \in DOMAIN manifest.val :
              loaded.val.res.val[field] = manifest.val[field]
        /\ DOMAIN loaded.val.res.val = DOMAIN manifest.val

\* a load of the saved file of a manifest with a startup-critical record, a
\* load-order list and a shader variant
C5_Witness ==
    /\ loaded.some
    /\ loaded.val.file = Some(save(manifest.val))
    /\ last = "load"
    /\ \E i \in DOMAIN manifest.val.assets : manifest.val.assets[i].is_startup_critical
    /\ manifest.val.load_order # <<>>
    /\ manifest.val.shader_variants # <<>>

\* C6 as stated: load of any file whose first 8 bytes differ from UEFAST01
\* fails with CacheError("Invalid cache file format"), and the payload is not
\* deserialized
C6_BadMagicIsCacheError ==
    (loaded.some /\ loaded.val.file.some
        /\ FirstBytes(loaded.val.file.val) # CACHE_MAGIC) =>
            /\ loaded.val.res = Err("CacheError", "Invalid cache file format")
            /\ ~loaded.val.deserialized

\* C6: load of a file of 8 bytes or more whose first 8 bytes differ from
\* UEFAST01 fails with CacheError("Invalid cache file format"), load of a
\* file of fewer than 8 bytes fails with IoError; neither returns a manifest
\* and neither deserializes the payload
C6_BadMagicRejected ==
    (loaded.some /\ loaded.val.file.some
        /\ FirstBytes(loaded.val.file.val) # CACHE_MAGIC) =>
            /\ ~loaded.val.res.ok
            /\ ~loaded.val.deserialized
            /\ Len(loaded.val.file.val) >= 8 =>
                  loaded.val.res = Err("CacheError", "Invalid cache file format")
            /\ Len(loaded.val.file.val) < 8 => loaded.val.res.err = "IoError"

\* a load of the file FF FF FF FF FF FF FF FF FF
C6_Witness ==
    /\ last = "load"
    /\ loaded.val.file = Some(JunkFile)
    /\ loaded.val.res.err = "CacheError"

\* C7: after compute_load_order on an acyclic graph, every edge u -> v that
\* add_dependency inserted has rank(u) < rank(v)
C7_TopologicalSoundness ==
    (last = "compute_load_order" /\ Acyclic(graph)) =>
        /\ Ranked(graph)
        /\ \A k \in DOMAIN graph.edges :
              rank(graph, graph.edges[k].source) < rank(graph, graph.edges[k].target)

\* an acyclic graph ordered with an edge from a later node to an earlier one
C7_Witness ==
    /\ last = "compute_load_order"
    /\ Acyclic(graph)
    /\ \E k \in DOMAIN graph.edges : graph.edges[k].source > graph.edges[k].target

\* the node of a path in a graph (NodeIndex)
NodeOf(g, rel) == CHOOSE i \in NodeIds(g) : g.nodes[i + 1].path = project_root \o rel

\* C8: for a project with the packages Content/A.uasset and Content/B.uasset
\* where A's import table names /Game/B, build followed by
\* compute_load_order gives rank(B) < rank(A)
C8_ImportedRankedFirst ==
    (/\ last = "build"
     /\ disk.files[PathA] = PresentFile(3, TRUE)
     /\ disk.files[PathB] = PresentFile(4, TRUE)) =>
        /\ Ranked(graph)
        /\ rank(graph, NodeOf(graph, PathB)) < rank(graph, NodeOf(graph, PathA))

\* C9: after filter_startup_critical on any graph, every remaining node is
\* reachable over zero or more edges from a remaining seed
C9_CriticalityClosure ==
    (last = "filter_startup_critical") =>
        \A v \in NodeIds(graph) :
            \E s \in NodeIds(graph) :
                /\ SeedNode(graph.nodes[s + 1])
                /\ v \in ReachableFrom(graph, {s})

\* a filtered graph that kept a node which is no seed itself
C9_Witness ==
    /\ last = "filter_startup_critical"
    /\ \E v \in NodeIds(graph) : ~SeedNode(graph.nodes[v + 1])

\* the ranks are exactly 0 .. n-1, each used once
RanksArePermutation(g) ==
    /\ Ranked(g)
    /\ {rank(g, i) : i \in NodeIds(g)} = NodeIds(g)
    /\ \A i, j \in NodeIds(g) : i # j => rank(g, i) # rank(g, j)

\* C10: compute_load_order terminates, and afterwards, cycle or no cycle,
\* every node has a rank and the ranks are exactly 0 .. n-1, none used twice
C10_TerminatesWithAllRanks ==
    /\ [](run.some => <>(~run.some))
    /\ [](last = "compute_load_order" => RanksArePermutation(graph))

\* an order computed for a graph with a cycle through two nodes
C10_Witness ==
    /\ last = "compute_load_order"
    /\ ~Acyclic(graph)
    /\ node_count(graph) >= 2
    /\ \E k \in DOMAIN graph.edges : graph.edges[k].source # graph.edges[k].target

\* the record of a path in a manifest
RecordsOf(m, rel) == {i \in DOMAIN m.assets : m.assets[i].relative_path = to_string_lossy(rel)}

HasNode(g, rel) == \E i \in NodeIds(g) : g.nodes[i + 1].path = project_root \o rel

\* C11: in the manifest build returns, the load_order of every record is the
\* rank compute_load_order gave the graph node of that asset
C11_LoadOrderIsRank ==
    (last = "build") =>
        \A rel \in FilePaths : \A i \in RecordsOf(manifest.val, rel) :
            HasNode(graph, rel) =>
                /\ Ranked(graph)
                /\ manifest.val.assets[i].load_order = rank(graph, NodeOf(graph, rel))

\* the critical set of a graph: its seeds and every node reachable from one
CriticalSet(g) ==
    {v \in NodeIds(g) :
        \E s \in NodeIds(g) : SeedNode(g.nodes[s + 1]) /\ v \in ReachableFrom(g, {s})}

\* C12: in the manifest build returns, a record has is_startup_critical = true
\* exactly when its asset is in the graph's critical set (a Map or
\* startup-named seed, or a node reachable from a seed); every Map record is
\* marked
C12_CriticalExactlyMarked ==
    (last = "build") =>
        \A rel \in FilePaths : \A i \in RecordsOf(manifest.val, rel) :
            /\ HasNode(graph, rel) =>
                  (manifest.val.assets[i].is_startup_critical
                      <=> NodeOf(graph, rel) \in CriticalSet(graph))
            /\ manifest.val.assets[i].asset_type = "UMap" =>
                  manifest.val.assets[i].is_startup_critical

\* the assets a scan of the project finds
Scanned(d) == scan_all(d, NoFilter, WalkDir(d)).val

\* C13: a file that cannot be read, has the wrong magic or has a corrupt
\* header only loses its own contribution: build completes, the graph has a
\* node for every scanned asset and the manifest a record for every asset
\* whose hash can be taken
C13_FailureIsolation ==
    (last \in {"build", "build failed", "build panicked"} /\ disk.content_dir) =>
        /\ last = "build"
        /\ \A k \in DOMAIN Scanned(disk) :
              LET asset == Scanned(disk)[k]
              IN /\ \E i \in NodeIds(graph) : graph.nodes[i + 1].path = asset.path
                 /\ hash_file(disk, asset.path).ok =>
                       \E i \in DOMAIN manifest.val.assets :
                           manifest.val.assets[i].relative_path = asset.relative_path

(***************************************************************************)
(* Hash notions the properties are stated with                             *)
(***************************************************************************)
\* the file of a behaviour of SpecHash and its build
HashedFile == run.val
Kernels == run.val.asm_hotpaths

\* whether byte i of a buffer is not zero
RECURSIVE NonZeroAt(_, _)
NonZeroAt(x, i) ==
    IF x = <<>> THEN FALSE
    ELSE IF i < x[1][1] THEN x[1][2] # 0
    ELSE NonZeroAt(Tail(x), i - x[1][1])

\* the first 64 KiB, the 64 KiB from size/2, the last 64 KiB and the size as
\* 8 little-endian bytes
SampledWindows(x) ==
    Norm(Slice(x, 0, 65536)
         \o Slice(x, len(x) \div 2, len(x) \div 2 + 65536)
         \o Slice(x, len(x) - 65536, len(x))
         \o to_le_bytes(len(x)))

\* C14: hash_bytes of a buffer in a build with the vectorised kernels
\* (HashState from 256 bytes on) is hash_bytes of it in a build without them
C14_KernelsEqualFallback ==
    (last = "hash_bytes") =>
        result.val = Ok(hash_bytes_of(HashedFile.contents, FALSE))

\* C15: hash_file of a readable file is hash_bytes of the file's complete
\* contents, in each of the tiers below 4 KiB, from 4 KiB to 64 KiB, and
\* memory-mapped from 64 KiB on
C15_HashFileIsHashOfContents ==
    (last = "hash_file" /\ HashedFile.readable) =>
        result.val = Ok(hash_bytes_of(HashedFile.contents, Kernels))

\* a mapped file hashed whose only non-zero byte lies past the first 64 KiB
C15_Witness ==
    /\ last = "hash_file"
    /\ HashedFile.readable
    /\ len(HashedFile.contents) >= MMAP_THRESHOLD
    /\ NonZeroAt(HashedFile.contents, 70000)
    /\ result.val.ok

\* C16: turbo_hash of a file of less than 128 KiB, the empty file included,
\* is hash_file of it
C16_TurboIsFullBelow128K ==
    (last = "turbo_hash" /\ len(HashedFile.contents) < 131072) =>
        result.val = hash_file_of(HashedFile, Kernels)

\* turbo_hash of a file one byte short of 128 KiB whose last byte is not zero
C16_Witness ==
    /\ last = "turbo_hash"
    /\ HashedFile.readable
    /\ len(HashedFile.contents) = 131071
    /\ NonZeroAt(HashedFile.contents, 131070)
    /\ result.val.ok

\* C17 as stated: turbo_hash of a file of 128 KiB or more is the hash of its
\* first 64 KiB, the 64 KiB from size/2, its last 64 KiB and its size as 8
\* little-endian bytes
C17_SampledFrom128K ==
    (last = "turbo_hash" /\ HashedFile.readable
        /\ len(HashedFile.contents) >= 131072) =>
            result.val = Ok(hash_bytes_of(SampledWindows(HashedFile.contents), Kernels))

\* C17: turbo_hash of a file of 512 KiB (2 x CHUNK_SIZE) or more is the hash
\* of its first 64 KiB, the 64 KiB from size/2, its last 64 KiB and its size
\* as 8 little-endian bytes, whatever the bytes outside those windows; of a
\* smaller file it is hash_file
C17_SampledFrom512K ==
    (last = "turbo_hash" /\ HashedFile.readable) =>
        IF len(HashedFile.contents) >= 524288
        THEN result.val = Ok(hash_bytes_of(SampledWindows(HashedFile.contents), Kernels))
        ELSE result.val = hash_file_of(HashedFile, Kernels)

\* turbo_hash of a file of 600000 bytes whose only non-zero byte lies between
\* the first window and the middle one
C17_Witness ==
    /\ last = "turbo_hash"
    /\ HashedFile.readable
    /\ len(HashedFile.contents) = 600000
    /\ NonZeroAt(HashedFile.contents, 70000)
    /\ result.val = Ok(hash_bytes_of(SampledWindows(<<<<600000, 0>>>>), Kernels))

\* the class verify's algorithm gives a record when every hash is a turbo hash
QuickClassOf(d, rec) ==
    LET here == {p \in DiskAssetPaths(d) : to_string_lossy(p) = rec.relative_path}
        hash == turbo_hash(d, project_root \o (CHOOSE p \in here : TRUE))
    IN IF here = {} THEN "missing"
       ELSE IF hash.ok /\ hash.val = rec.content_hash THEN "unchanged"
       ELSE "changed"

\* C18: quick-verify is verify with turbo_hash for the full hash: it reports
\* exactly the manifest records whose file is in the scan with another turbo
\* hash or cannot be hashed (changed) or is not in the scan (missing), and no
\* record that is unchanged
C18_QuickVerifyAsVerify ==
    (last = "quick_verify" /\ result.val.res.ok) =>
        Range(result.val.res.val.changes) =
            { result.val.of.assets[i].relative_path :
                i \in {j \in DOMAIN result.val.of.assets :
                          QuickClassOf(disk, result.val.of.assets[j]) # "unchanged"} }

\* the file the claim names for an import: <root>/Content/X.uasset for
\* /Game/X and <root>/Engine/Content/X.uasset for /Engine/X
NamedImportFile(import) ==
    LET X == PathOfStr(Drop(import, 3), <<>>)
    IN IF starts_with(import, <<"/", "Game", "/">>)
       THEN with_extension(project_root \o <<Dir("Content")>> \o X, "uasset")
       ELSE with_extension(project_root \o <<Dir("Engine"), Dir("Content")>> \o X, "uasset")

\* the imports build resolved: those of every scanned package that parsed
ParsedImports(d) ==
    UNION { Range(parse_imports(d, project_root \o rel).val) :
              rel \in {p \in Range(WalkDir(d)) :
                          /\ from_extension(extension(p).val) = "UAsset"
                          /\ parse_imports(d, project_root \o p).ok} }

\* C19: resolve_import_path maps /Game/X to <root>/Content/X.uasset and
\* /Engine/X to <root>/Engine/Content/X.uasset, and returns that path when
\* the file exists and None when it does not
C19_ImportResolution ==
    (last = "build") =>
        \A import \in ParsedImports(disk) :
            resolve_import_path(disk, import) =
                IF exists(disk, NamedImportFile(import))
                THEN Some(NamedImportFile(import))
                ELSE None

\* C20 as stated: after any sequence of add_asset and add_dependency calls
\* the graph holds at most one edge for each (source, target, dependency
\* kind) triple
C20_AtMostOneEdgePerTriple ==
    \A j, k \in DOMAIN graph.edges :
        (/\ graph.edges[j].source = graph.edges[k].source
         /\ graph.edges[j].target = graph.edges[k].target
         /\ graph.edges[j].dependency_type = graph.edges[k].dependency_type) => j = k

\* C20: the graph may hold several edges for one (source, target, kind)
\* triple: an add_dependency call whose two paths are nodes appends its edge
\* whether or not the graph holds an equal one already, so the edge last
\* added can always be added again
C20_EdgeAddedAgain ==
    (graph.edges # <<>> /\ edge_count(graph) < MaxEdges) =>
        ENABLED (/\ AddDependency
                 /\ graph'.edges = Append(graph.edges, graph.edges[Len(graph.edges)]))

\* a graph in which add_dependency has made the same edge twice
C20_Witness ==
    /\ last = "add_dependency"
    /\ \E j, k \in DOMAIN graph.edges : j # k /\ graph.edges[j] = graph.edges[k]

\* C21: in every VerifyResult verify returns, is_valid is true exactly when
\* changed_assets is empty and missing_assets is empty
C21_ValidIffNothingChangedOrMissing ==
    Verified =>
        LET v == result.val.res.val
        IN v.is_valid <=> (v.changed_assets = <<>> /\ v.missing_assets = <<>>)

\* a verify that found a record missing and none changed
C21_Witness ==
    /\ Verified
    /\ result.val.res.val.changed_assets = <<>>
    /\ result.val.res.val.missing_assets # <<>>
    /\ ~result.val.res.val.is_valid

(***************************************************************************)
(* SpecScan: the scanner applied to any project, with and without a filter *)
(***************************************************************************)
ScanDisks ==
    {NoDisk} \cup
    UNION { Projects(PathA :> a @@ PathM :> m @@ PathT :> t @@ PathP :> p @@ PathX :> x
                     @@ PathG :> PresentFile(4, TRUE)) :
        a \in {AbsentFile, PresentFile(4, TRUE), OldFile(4)},
        m \in {AbsentFile, PresentFile(4, TRUE)},
        t \in {AbsentFile, PresentFile(5, TRUE), OldFile(5)},
        p \in {AbsentFile, PresentFile(5, TRUE)},
        x \in {AbsentFile, PresentFile(5, TRUE)} }

\* the values of --filter
ScanFilters == {NoFilter, Some("uasset"), Some("umap"), Some("txt"), Some("png")}

InitScan ==
    /\ disk \in ScanDisks
    /\ manifest = None
    /\ cacheFile = None
    /\ loaded = None
    /\ result = None
    /\ graph = DependencyGraph_new
    /\ run = None
    /\ builds = <<>>
    /\ edits = 0
    /\ last = "new"

\* AssetScanner::new(project)?.scan_all(filter)
ScanAll ==
    \E filter \in ScanFilters :
        /\ \E scanner \in {AssetScanner_new(disk)} :
              result' = Some([res |-> IF ~scanner.ok THEN scanner
                                      ELSE scan_all(disk, filter, WalkDir(disk)),
                              src |-> "scan_all", filter |-> filter])
        /\ last' = "scan_all"
        /\ UNCHANGED <<disk, manifest, cacheFile, loaded, graph, run, builds, edits>>

\* AssetScanner::new(project)?.scan_by_type(asset_type)
ScanByType ==
    \E asset_type \in Range(AssetTypes) :
        /\ \E scanner \in {AssetScanner_new(disk)} :
              result' = Some([res |-> IF ~scanner.ok THEN scanner
                                      ELSE scan_by_type(disk, asset_type, WalkDir(disk)),
                              src |-> "scan_by_type", filter |-> Some(asset_type)])
        /\ last' = "scan_by_type"
        /\ UNCHANGED <<disk, manifest, cacheFile, loaded, graph, run, builds, edits>>

NextScan == ScanAll \/ ScanByType

SpecScan == InitScan /\ [][NextScan]_vars

(***************************************************************************)
(* Scan notions                                                            *)
(***************************************************************************)
\* the last operation was a scan_all that returned, or a scan_by_type
ScannedAll == result.some /\ result.val.src = "scan_all" /\ result.val.res.ok
ScannedByType == result.some /\ result.val.src = "scan_by_type" /\ result.val.res.ok

\* the positions of the records returned for the file at p
RecordsAt(p) ==
    {i \in DOMAIN result.val.res.val : result.val.res.val[i].path = project_root \o p}

\* exactly one record is returned for the file at p, and it carries the
\* file's size and time of modification
OneRecordFor(p) ==
    /\ Cardinality(RecordsAt(p)) = 1
    /\ \A i \in RecordsAt(p) :
          /\ result.val.res.val[i].size_bytes = Image(disk.files[p].data).size
          /\ result.val.res.val[i].modified = disk.files[p].modified

\* the regular files beneath Content/ whose extension is ext, letter case
\* aside
FilesOfExtension(d, ext) ==
    {p \in WalkEntries(d.files) :
        extension(p).some /\ to_lowercase(extension(p).val) = to_lowercase(ext)}

\* every record's relative_path names a file beneath the project root, the
\* one at the record's path
RecordsInsideRoot ==
    \A i \in DOMAIN result.val.res.val :
        \E p \in WalkEntries(disk.files) :
            /\ result.val.res.val[i].path = project_root \o p
            /\ result.val.res.val[i].relative_path = to_string_lossy(p)

\* C22 as stated: for every regular file beneath Content/ whose extension
\* classifies as other than Other, scan_all(None) returns exactly one record,
\* carrying the file's size and modification time
C22_EveryAssetScannedOnce ==
    (ScannedAll /\ result.val.filter = NoFilter) =>
        \A p \in DiskAssetPaths(disk) : OneRecordFor(p)

\* C22: for every regular file beneath Content/ whose extension classifies
\* as other than Other and whose modification time is not before the Unix
\* epoch, scan_all(None) returns exactly one record, carrying the file's size
\* and modification time; a file modified before the epoch has no record
C22_EveryDatedAssetScannedOnce ==
    (ScannedAll /\ result.val.filter = NoFilter) =>
        \A p \in DiskAssetPaths(disk) :
            IF disk.files[p].modified >= 0 THEN OneRecordFor(p) ELSE RecordsAt(p) = {}

\* a default scan of a project that holds a map with an upper-case
\* extension and a package modified before the epoch
C22_Witness ==
    /\ ScannedAll
    /\ result.val.filter = NoFilter
    /\ disk.files[PathM].exists
    /\ OneRecordFor(PathM)
    /\ disk.files[PathA].exists
    /\ disk.files[PathA].modified < 0

\* C23 as stated: scan_all(None) returns no record classified Other,
\* scan_all(Some(ext)) returns every regular file whose extension equals ext
\* case-insensitively, and every record's relative_path lies inside the
\* project root
C23_OtherKeptOnlyUnderFilter ==
    ScannedAll =>
        /\ result.val.filter = NoFilter =>
              \A i \in DOMAIN result.val.res.val :
                  result.val.res.val[i].asset_type # "Other"
        /\ result.val.filter # NoFilter =>
              \A p \in FilesOfExtension(disk, result.val.filter.val) : RecordsAt(p) # {}
        /\ RecordsInsideRoot

\* C23: scan_all(None) returns no record classified Other, scan_all(Some(ext))
\* returns every regular file whose extension equals ext case-insensitively
\* and whose modification time is not before the Unix epoch, including files
\* classified Other, and every record's relative_path lies inside the
\* project root
C23_DatedOtherKeptOnlyUnderFilter ==
    ScannedAll =>
        /\ result.val.filter = NoFilter =>
              \A i \in DOMAIN result.val.res.val :
                  result.val.res.val[i].asset_type # "Other"
        /\ result.val.filter # NoFilter =>
              \A p \in FilesOfExtension(disk, result.val.filter.val) :
                  disk.files[p].modified >= 0 => RecordsAt(p) # {}
        /\ RecordsInsideRoot

\* a scan filtered by "txt" that returned a record classified Other
C23_Witness ==
    /\ ScannedAll
    /\ result.val.filter = Some("txt")
    /\ \E i \in RecordsAt(PathT) : result.val.res.val[i].asset_type = "Other"

\* C30: every record scan_by_type(t) returns has asset_type = t, and every
\* scanned asset of classification t is returned
C30_ScanByTypeReturnsTheType ==
    ScannedByType =>
        LET t == result.val.filter.val
            all == scan_all(disk, NoFilter, WalkDir(disk)).val
        IN /\ \A i \in DOMAIN result.val.res.val : result.val.res.val[i].asset_type = t
           /\ \A j \in DOMAIN all :
                 all[j].asset_type = t => all[j] \in Range(result.val.res.val)

(***************************************************************************)
(* uasset.rs: read_name_table on the mapped bytes                          *)
(*   mmap    a sequence of bytes; offsets are 0-based as in the source     *)
(*   String  the sequence of its characters' code points                   *)
(***************************************************************************)
MaxNames == 2       \* entries of a name table
MaxNameLen == 2     \* characters of a name

\* i32::from_le_bytes
i32_from_le_bytes(b) ==
    IF b[4] >= 128
    THEN 0 - ((255 - b[1]) + 256 * (255 - b[2]) + 65536 * (255 - b[3])
              + 16777216 * (255 - b[4])) - 1
    ELSE b[1] + 256 * b[2] + 65536 * b[3] + 16777216 * b[4]

\* i32::to_le_bytes, for the lengths a table of the model holds
i32_to_le_bytes(n) ==
    IF n >= 0 THEN <<n % 256, (n \div 256) % 256, 0, 0>>
    ELSE <<(256 + n) % 256, 255, 255, 255>>

\* &mmap[from..to]
Bytes(mmap, from, to) == SubSeq(mmap, from + 1, to)

\* chunks(2) of little-endian pairs as u16, a single last byte taken with 0
RECURSIVE Utf16Units(_)
Utf16Units(bytes) ==
    IF bytes = <<>> THEN <<>>
    ELSE IF Len(bytes) = 1 THEN <<bytes[1]>>
    ELSE <<bytes[1] + 256 * bytes[2]>> \o Utf16Units(Drop(bytes, 2))

\* the loop of read_name_table: remaining iterations, the offset, the names;
\* length is the entry's `len`
RECURSIVE NameTableLoop(_, _, _, _)
NameTableLoop(mmap, remaining, offset, names) ==
    IF remaining = 0 THEN names
    ELSE IF offset + 4 > Len(mmap) THEN names
    ELSE LET length == i32_from_le_bytes(Bytes(mmap, offset, offset + 4))
             offset1 == offset + 4
             str_len == IF length < 0 THEN 0 - length ELSE length
             name == IF length > 0
                     THEN Bytes(mmap, offset1, offset1 + str_len - 1)
                     ELSE Utf16Units(Bytes(mmap, offset1, offset1 + str_len))
             offset2 == offset1 + str_len
         IN IF length <= 0
            THEN NameTableLoop(mmap, remaining - 1, offset1, Append(names, <<>>))
            ELSE IF offset1 + str_len > Len(mmap) THEN names
            ELSE NameTableLoop(mmap, remaining - 1,
                               IF offset2 + 4 <= Len(mmap) THEN offset2 + 4 ELSE offset2,
                               Append(names, name))

\* UAssetParser::read_name_table on the bytes of the file
read_name_table_at(mmap, name_count, name_offset) ==
    IF name_count < 0 THEN Panic("capacity overflow")
    ELSE Ok(NameTableLoop(mmap, name_count, name_offset, <<>>))

(***************************************************************************)
(* SpecNames: the name table of a package read from its bytes              *)
(***************************************************************************)
\* the 4-byte hash word that follows each name
NameHash == <<7, 0, 0, 0>>

\* one entry as the format lays it out: the length prefix, the string (with
\* its NUL when narrow, as |len| UTF-16 code units when wide), the hash word
EncodeName(entry) ==
    IF entry.wide
    THEN i32_to_le_bytes(0 - Len(entry.chars))
         \o [k \in 1..(2 * Len(entry.chars)) |->
                IF k % 2 = 1 THEN entry.chars[(k + 1) \div 2] ELSE 0]
         \o NameHash
    ELSE i32_to_le_bytes(Len(entry.chars) + 1) \o entry.chars \o <<0>> \o NameHash

RECURSIVE EncodeNames(_)
EncodeNames(entries) ==
    IF entries = <<>> THEN <<>> ELSE EncodeName(entries[1]) \o EncodeNames(Tail(entries))

\* the names a table can hold: "/", "G" and their combinations, narrow or
\* wide; a wide entry holds at least one character
NameEntries ==
    { entry \in [wide : BOOLEAN, chars : SeqsUpTo({47, 71}, MaxNameLen)] :
        entry.wide => entry.chars # <<>> }

\* the bytes before the table
NamePrefix == <<193, 131, 42, 158>>

InitNames ==
    /\ run \in { Some([entries |-> e,
                       mmap |-> NamePrefix \o EncodeNames(e),
                       name_count |-> Len(e),
                       name_offset |-> Len(NamePrefix)]) :
                   e \in SeqsUpTo(NameEntries, MaxNames) }
    /\ disk = NoDisk
    /\ manifest = None
    /\ cacheFile = None
    /\ loaded = None
    /\ result = None
    /\ graph = DependencyGraph_new
    /\ builds = <<>>
    /\ edits = 0
    /\ last = "new"

\* read_name_table(&mmap, &header)
ReadNameTable ==
    /\ last = "new"
    /\ result' = Some([res |-> read_name_table_at(run.val.mmap, run.val.name_count,
                                                  run.val.name_offset),
                       src |-> "read_name_table"])
    /\ last' = "read_name_table"
    /\ UNCHANGED <<disk, manifest, cacheFile, loaded, graph, run, builds, edits>>

NextNames == ReadNameTable

SpecNames == InitNames /\ [][NextNames]_vars

\* C24: the name-table read decodes an entry with a negative length prefix
\* len as |len| little-endian UTF-16 code units (2*|len| bytes) and an entry
\* with a positive len as the len-1 bytes before the NUL, so that the entry
\* at index i is the i-th encoded name
C24_NamesKeepTheirIndices ==
    (last = "read_name_table") =>
        /\ result.val.res.ok
        /\ result.val.res.val = [i \in DOMAIN run.val.entries |-> run.val.entries[i].chars]

(***************************************************************************)
(* analyzer.rs: find_duplicates                                            *)
(***************************************************************************)
\* the (hash, relative path, size) triples of the assets that hash_file can
\* hash, in the order of the assets
RECURSIVE DupHashes(_, _, _)
DupHashes(d, assets, k) ==
    IF k > Len(assets) THEN <<>>
    ELSE LET asset == assets[k]
             hash == hash_file(d, asset.path)
         IN (IF hash.ok
             THEN <<[hash |-> hash.val, path |-> asset.relative_path,
                     size |-> asset.size_bytes]>>
             ELSE <<>>)
            \o DupHashes(d, assets, k + 1)

\* iter().map(|(_, s)| s).sum()
RECURSIVE SumSizes(_)
SumSizes(files) == IF files = <<>> THEN 0 ELSE files[1].size + SumSizes(Tail(files))

\* StartupAnalyzer::find_duplicates; the groups come out of a HashMap in no
\* particular order and are given as a set
find_duplicates(d, assets) ==
    Only({ Ok({ Only({ [hash |-> h,
                        files |-> [k \in 1..Len(files) |-> files[k].path],
                        wasted_bytes |-> SumSizes(Tail(files))] :
                          files \in {SelectSeq(hashes, LAMBDA e : e.hash = h)} }) :
                  h \in {g \in {hashes[k].hash : k \in DOMAIN hashes} :
                            Len(SelectSeq(hashes, LAMBDA e : e.hash = g)) > 1} }) :
             hashes \in {DupHashes(d, assets, 1)} })

(***************************************************************************)
(* SpecDup: analyze's scan, then its search for duplicates among the       *)
(* scanned assets, on a project that can change in between                 *)
(***************************************************************************)
DupDisks ==
    UNION { Projects(PathA :> a @@ PathB :> b @@ PathM :> m) :
        a \in {PresentFile(1, TRUE), PresentFile(2, TRUE), PresentFile(3, TRUE)},
        b \in {AbsentFile, PresentFile(4, TRUE), PresentFile(4, FALSE)},
        m \in {AbsentFile, PresentFile(2, TRUE), PresentFile(3, TRUE)} }

InitDup ==
    /\ disk \in DupDisks
    /\ manifest = None
    /\ cacheFile = None
    /\ loaded = None
    /\ result = None
    /\ graph = DependencyGraph_new
    /\ run = None
    /\ builds = <<>>
    /\ edits = 0
    /\ last = "new"

\* analyze: scanner.scan_all(None)
AnalyzeScan ==
    /\ ~run.some
    /\ run' = Some([assets |-> scan_all(disk, NoFilter, WalkDir(disk)).val, disk |-> disk])
    /\ last' = "scan_all"
    /\ UNCHANGED <<disk, manifest, cacheFile, loaded, result, graph, builds, edits>>

\* analyze: self.find_duplicates(&assets)
FindDuplicates ==
    /\ run.some
    /\ result' = Some([res |-> find_duplicates(disk, run.val.assets),
                       src |-> "find_duplicates"])
    /\ last' = "find_duplicates"
    /\ UNCHANGED <<disk, manifest, cacheFile, loaded, graph, run, builds, edits>>

NextDup == AnalyzeScan \/ FindDuplicates \/ WriteFile \/ DeleteFile

SpecDup == InitDup /\ [][NextDup]_vars

\* the sizes of the scanned assets a group names
GroupSizes(group) ==
    [k \in DOMAIN group.files |->
        (CHOOSE i \in DOMAIN run.val.assets :
            run.val.assets[i].relative_path = group.files[k])]

RECURSIVE SumOf(_, _)
SumOf(assets, idx) ==
    IF idx = <<>> THEN 0 ELSE assets[idx[1]].size_bytes + SumOf(assets, Tail(idx))

MaxOf(assets, idx) ==
    CHOOSE s \in {assets[idx[k]].size_bytes : k \in DOMAIN idx} :
        \A k \in DOMAIN idx : assets[idx[k]].size_bytes <= s

\* C25: every duplicate group has at least two files, all its files share
\* one fingerprint, and wasted_bytes is the sum of the files' sizes minus the
\* largest size, whatever the order in which the files were hashed
C25_WastedIsSumMinusMax ==
    (last = "find_duplicates") =>
        \A group \in result.val.res.val :
            /\ Len(group.files) >= 2
            /\ \A k \in DOMAIN group.files :
                  hash_file(disk, project_root \o PathOfStr(group.files[k], <<>>))
                      = Ok(group.hash)
            /\ group.wasted_bytes =
                  SumOf(run.val.assets, GroupSizes(group))
                      - MaxOf(run.val.assets, GroupSizes(group))

(***************************************************************************)
(* SpecSave: StartupCache::save taken call by call, as cmd_cache runs it   *)
(* on the output path, with the process free to end in between             *)
(***************************************************************************)
\* File::create(path) and BufWriter::new(file): the file at the path is
\* created or truncated, nothing is written yet
SaveCreate ==
    /\ manifest.some
    /\ ~run.some
    /\ cacheFile' = Some(<<>>)
    /\ run' = Some([buffer |-> <<>>, pc |-> "write", previous |-> cacheFile])
    /\ last' = "create"
    /\ UNCHANGED <<disk, manifest, loaded, result, graph, builds, edits>>

\* writer.write_all(CACHE_MAGIC) and bincode::serialize_into(&mut writer,
\* self): the bytes go to the writer's buffer
SaveWrite ==
    /\ run.some
    /\ run.val.pc = "write"
    /\ run' = Some([run.val EXCEPT !.buffer = CACHE_MAGIC \o serialize(manifest.val),
                                   !.pc = "flush"])
    /\ last' = "write_all"
    /\ UNCHANGED <<disk, manifest, cacheFile, loaded, result, graph, builds, edits>>

\* writer.flush(): the buffer goes to the file, save returns Ok
SaveFlush ==
    /\ run.some
    /\ run.val.pc = "flush"
    /\ cacheFile' = Some(run.val.buffer)
    /\ run' = None
    /\ last' = "save"
    /\ UNCHANGED <<disk, manifest, loaded, result, graph, builds, edits>>

\* the process ends before save returns: what is in the writer's buffer is
\* lost, the file stays as it is
SaveInterrupted ==
    /\ run.some
    /\ run' = None
    /\ last' = "save interrupted"
    /\ UNCHANGED <<disk, manifest, cacheFile, loaded, result, graph, builds, edits>>

\* cmd_cache with --force at a later time: the cache is built again
BuildAgain ==
    /\ ~run.some
    /\ Len(builds) < MaxBuilds
    /\ manifest' = Some([manifest.val EXCEPT !.created_at = 1 - @])
    /\ builds' = Append(builds, [disk |-> disk, cache |-> manifest'.val])
    /\ last' = "build"
    /\ UNCHANGED <<disk, cacheFile, loaded, result, graph, run, edits>>

NextSave == SaveCreate \/ SaveWrite \/ SaveFlush \/ SaveInterrupted \/ BuildAgain

SpecSave == InitCodec /\ [][NextSave]_vars

\* C26: a save that fails or is interrupted part-way never publishes a
\* partial manifest: at every moment the file at the output path is absent,
\* or its previous complete content, or a complete newly written manifest
C26_NoPartialManifest ==
    \/ cacheFile = None
    \/ \E t \in {0, 1} : cacheFile = Some(save([manifest.val EXCEPT !.created_at = t]))

(***************************************************************************)
(* Graph index notions                                                     *)
(***************************************************************************)
\* the path index of g is that of its nodes: each node's path maps to the
\* node's index, no other path is a key, and no two nodes share a path
IndexConsistent(g) ==
    /\ \A i \in NodeIds(g) : path_to_node_get(g, g.nodes[i + 1].path) = Some(i)
    /\ DOMAIN g.path_to_node = {g.nodes[i + 1].path : i \in NodeIds(g)}
    /\ node_count(g) = Cardinality({g.nodes[i + 1].path : i \in NodeIds(g)})

\* from g to h nothing changed, or one node was added whose path g did not
\* hold
SameOrOneNewNode(g, h) ==
    \/ h = g
    \/ /\ h.edges = g.edges
       /\ node_count(h) = node_count(g) + 1
       /\ SubSeq(h.nodes, 1, node_count(g)) = g.nodes
       /\ ~path_to_node_get(g, h.nodes[node_count(h)].path).some

\* from g to h nothing changed, or one edge was added between two nodes
SameOrOneNewEdge(g, h) ==
    \/ h = g
    \/ /\ h.nodes = g.nodes
       /\ h.path_to_node = g.path_to_node
       /\ edge_count(h) = edge_count(g) + 1
       /\ SubSeq(h.edges, 1, edge_count(g)) = g.edges
       /\ h.edges[edge_count(h)].source \in NodeIds(g)
       /\ h.edges[edge_count(h)].target \in NodeIds(g)

\* C27: after any sequence of add_asset, add_dependency and
\* filter_startup_critical calls the path index is consistent with the
\* graph (each node's path maps to that node's index, no entry refers to a
\* removed node, node_count is the number of distinct paths); add_asset of a
\* path already present adds no node, and add_dependency with an end point
\* that is no node leaves nodes and edges unchanged
C27_PathIndexConsistent ==
    [][/\ IndexConsistent(graph')
       /\ last' = "add_asset" => SameOrOneNewNode(graph, graph')
       /\ last' = "add_dependency" => SameOrOneNewEdge(graph, graph')]_vars

\* a graph that lost a node to filter_startup_critical, kept one, and was
\* then given a node and an edge
C27_Witness ==
    /\ last = "add_dependency"
    /\ node_count(graph) >= 2
    /\ edge_count(graph) >= 1
    /\ \E i \in NodeIds(graph) : graph.nodes[i + 1].is_startup_critical
    /\ \E i \in NodeIds(graph) : ~graph.nodes[i + 1].is_startup_critical

(***************************************************************************)
(* SpecFilter: filter_startup_critical applied to any graph that add_asset *)
(* and add_dependency can build                                            *)
(***************************************************************************)
MaxFilterNodes == 3     \* nodes of a graph given to filter_startup_critical

\* the sequences of distinct paths
NodeOrders ==
    {ns \in SeqsUpTo(GraphPaths, MaxFilterNodes) :
        \A i, j \in DOMAIN ns : i # j => ns[i] # ns[j]}

\* add_dependency for each pair in turn
RECURSIVE WithEdges(_, _)
WithEdges(g, pairs) ==
    IF pairs = <<>> THEN g
    ELSE Only({ WithEdges(g1, Tail(pairs)) :
                  g1 \in {add_dependency(g, project_root \o pairs[1][1],
                                         project_root \o pairs[1][2], "Import", TRUE)} })

\* a graph built by add_asset for each path and add_dependency for each pair
InitFilter ==
    /\ \E ns \in NodeOrders :
          \E g \in {AddAssets(DependencyGraph_new,
                              [k \in DOMAIN ns |-> AssetInfoOf(ns[k])], 1)} :
              \E es \in SeqsUpTo(Range(ns) \X Range(ns), MaxEdges) :
                  graph = WithEdges(g, es)
    /\ run = None
    /\ disk = NoDisk
    /\ manifest = None
    /\ cacheFile = None
    /\ loaded = None
    /\ result = None
    /\ builds = <<>>
    /\ edits = 0
    /\ last = "new"

\* graph.filter_startup_critical(), the graph it was called on kept
FilterOnce ==
    /\ last = "new"
    /\ graph' = filter_startup_critical(graph)
    /\ result' = Some([before |-> graph])
    /\ last' = "filter_startup_critical"
    /\ UNCHANGED <<disk, manifest, cacheFile, loaded, run, builds, edits>>

NextFilter == FilterOnce

SpecFilter == InitFilter /\ [][NextFilter]_vars

\* the nodes of g reachable from a seed of g, the seeds among them
CriticalNodes(g) == ReachableFrom(g, {s \in NodeIds(g) : SeedNode(g.nodes[s + 1])})

\* the edges of g from the node of path p to the node of path q
EdgesBetween(g, p, q) ==
    {k \in DOMAIN g.edges :
        /\ g.nodes[g.edges[k].source + 1].path = p
        /\ g.nodes[g.edges[k].target + 1].path = q}

\* C28: filter_startup_critical removes exactly the nodes not reachable
\* from any seed: every seed and every node reachable from a seed is still
\* present with its own path and classification, and every edge whose
\* source is critical is still present between the same two paths
C28_FilterKeepsExactlyCritical ==
    (last = "filter_startup_critical") =>
        LET g == result.val.before
            crit == CriticalNodes(g)
        IN /\ node_count(graph) = Cardinality(crit)
           /\ {graph.nodes[j + 1].path : j \in NodeIds(graph)}
                 = {g.nodes[i + 1].path : i \in crit}
           /\ \A i \in crit :
                 \E j \in NodeIds(graph) :
                     /\ graph.nodes[j + 1].path = g.nodes[i + 1].path
                     /\ graph.nodes[j + 1].asset_type = g.nodes[i + 1].asset_type
           /\ \A i \in crit : \A v \in NodeIds(g) :
                 Cardinality(EdgesBetween(graph, g.nodes[i + 1].path, g.nodes[v + 1].path))
                     = Cardinality(EdgesBetween(g, g.nodes[i + 1].path, g.nodes[v + 1].path))

\* a filter of a graph in which a node that is not critical came before a
\* critical one, so that the removal moved the critical node to another
\* index, and in which an edge joined two critical nodes
C28_Witness ==
    /\ last = "filter_startup_critical"
    /\ LET g == result.val.before
       IN /\ \E i, j \in NodeIds(g) :
                i < j /\ i \notin CriticalNodes(g) /\ j \in CriticalNodes(g)
          /\ \E k \in DOMAIN g.edges :
                /\ g.edges[k].source \in CriticalNodes(g)
                /\ g.edges[k].source # g.edges[k].target
    /\ node_count(graph) >= 2

(***************************************************************************)
(* hash.rs: IncrementalHasher                                              *)
(***************************************************************************)
\* IncrementalHasher::new
IncrementalHasher_new == [state |-> HashState_new(U64(0)), buffer |-> <<>>]

\* IncrementalHasher::update with every byte handed to the state at once
\* and nothing buffered
IncrementalHasher_update_Unbuffered(self, data) ==
    [state |-> HashState_update(self.state, data), buffer |-> self.buffer]

\* IncrementalHasher::update
IncrementalHasher_update(self, data) ==
    LET buffer == extend_from_slice(self.buffer, data)
        complete_blocks == len(buffer) \div 32
        bytes_to_process == complete_blocks * 32
    IN IF complete_blocks > 0
       THEN [state |-> HashState_update(self.state, Slice(buffer, 0, bytes_to_process)),
             buffer |-> Slice(buffer, bytes_to_process, len(buffer))]
       ELSE [state |-> self.state, buffer |-> buffer]

\* IncrementalHasher::finalize
IncrementalHasher_finalize(self) ==
    IF self.buffer # <<>>
    THEN HashState_finalize(
             HashState_update(self.state,
                              extend_from_slice(self.buffer,
                                                <<<<32 - len(self.buffer), 0>>>>)))
    ELSE HashState_finalize(self.state)

(***************************************************************************)
(* SpecInc: one IncrementalHasher fed byte runs, then finalized            *)
(*   run     the hasher and the concatenation of the runs it was fed       *)
(*   builds  the lengths of the runs, in the order fed                     *)
(***************************************************************************)
MaxUpdates == 3     \* update calls on one hasher

\* the runs: empty, inside a block, a block, across one and across two
\* block ends
IncRuns ==
    { Norm(<<<<n, b>>>>) : n \in {0, 1, 31, 32, 65}, b \in {0, 1} }

InitInc ==
    /\ run = Some([hasher |-> IncrementalHasher_new, fed |-> <<>>])
    /\ builds = <<>>
    /\ result = None
    /\ disk = NoDisk
    /\ manifest = None
    /\ cacheFile = None
    /\ loaded = None
    /\ graph = DependencyGraph_new
    /\ edits = 0
    /\ last = "new"

\* hasher.update(data)
IncUpdate ==
    /\ last \in {"new", "update"}
    /\ Len(builds) < MaxUpdates
    /\ \E data \in IncRuns :
          /\ run' = Some([hasher |-> IncrementalHasher_update(run.val.hasher, data),
                          fed |-> extend_from_slice(run.val.fed, data)])
          /\ builds' = Append(builds, len(data))
    /\ last' = "update"
    /\ UNCHANGED <<disk, manifest, cacheFile, loaded, result, graph, edits>>

\* hasher.finalize()
IncFinalize ==
    /\ last \in {"new", "update"}
    /\ result' = Some(IncrementalHasher_finalize(run.val.hasher))
    /\ last' = "finalize"
    /\ UNCHANGED <<disk, manifest, cacheFile, loaded, graph, run, builds, edits>>

NextInc == IncUpdate \/ IncFinalize

SpecInc == InitInc /\ [][NextInc]_vars

\* C29: the result of an IncrementalHasher depends only on the
\* concatenation of the byte runs given to update, not on how it is split:
\* the updates followed by finalize equal one update with the concatenation
\* followed by finalize; after every update the buffered remainder is
\* shorter than 32 bytes
C29_SplitIndependent ==
    /\ (last = "update") => len(run.val.hasher.buffer) < 32
    /\ (last = "finalize") =>
          result.val = IncrementalHasher_finalize(
                           IncrementalHasher_update(IncrementalHasher_new, run.val.fed))

\* a hasher finalized after two or more updates, the first of which ended
\* inside a block, a later one completing that block, with a remainder left
\* for finalize to pad
C29_Witness ==
    /\ last = "finalize"
    /\ Len(builds) >= 2
    /\ builds[1] % 32 # 0
    /\ len(run.val.fed) > 32
    /\ len(run.val.fed) % 32 # 0
    /\ result.val # IncrementalHasher_finalize(IncrementalHasher_new)

====
